---- MODULE Spec2Model ----
(***************************************************************************)
(* A model of the bytecode interpreter `execute` and of its driver `main`  *)
(* (src/project04b-imantrip-master/src/recover_protected_local_secret.c,   *)
(* lines 76-639).  The C call stack of the recursive `execute` is the      *)
(* sequence `frames`; every case of the dispatch switch is one action.     *)
(*                                                                         *)
(* C arrays are sequences: C index i is element i + 1.  An access outside  *)
(* an array is undefined behaviour: a read yields some value of a small    *)
(* garbage set, a write is lost outside the modelled memory, and the step  *)
(* may instead crash the process.  Signed overflow, division overflow and  *)
(* an oversized shift count are treated the same way.                      *)
(*                                                                         *)
(* The module also models add_child_directory_tree                         *)
(* (src/pretest-imantrip-master/src/directory_tree.c), under TreeSpec,    *)
(* and the FAT16 directory walk follow (src/unnamed/part_000), under       *)
(* FollowSpec.                                                             *)
(* Each specification leaves the variables of the other programs idle.     *)
(***************************************************************************)
EXTENDS Integers, Sequences, FiniteSets, TLC

VARIABLES class, frames, heap, out, status, result, last, steps, mem,
          dnode, calls,
          disk, pos, activations, nodes, fstatus, reads

\* the directory node and the calls made on it (directory_tree.c)
treeVars == <<dnode, calls>>
\* the variables the interpreter leaves alone
\* the image, the position of the stream, the open calls of follow, the
\* nodes made, the state of the process and the offsets of the entries read
followVars == <<disk, pos, activations, nodes, fstatus, reads>>
FollowIdle ==
    /\ disk = <<>>
    /\ pos = 0
    /\ activations = <<>>
    /\ nodes = <<>>
    /\ fstatus = "idle"
    /\ reads = <<>>
others == <<treeVars, followVars>>
OthersIdle == dnode = <<>> /\ calls = <<>> /\ FollowIdle

vars == <<class, frames, heap, out, status, result, last, steps, mem, others>>

(***************************************************************************)
(* Bounds of the model.                                                    *)
(***************************************************************************)
\* Largest magnitude of the operands of the arithmetic test methods.
MaxVal == 3
\* Deepest recursion of the recursive test methods.
MaxDepth == 20
\* Largest array length requested by the array test methods.
MaxArr == 2
\* Largest element count calloc serves; a larger request returns NULL.
MaxAlloc == 6
\* Most parameters of the callees of the call test methods.
MaxParams == 2
\* Most instructions of an unchecked instruction stream.
MaxRaw == 2
\* Instructions executed in one run before the model stops following it.
MaxSteps == 260

(***************************************************************************)
(* int32_t arithmetic.  TLC's integers are 32 bits wide and do not wrap,   *)
(* so every operator below avoids an intermediate overflow.                *)
(***************************************************************************)
INT_MAX == 2147483647
INT_MIN == -INT_MAX - 1

\* a + b does not fit in an int32_t
AddOverflows(a, b) ==
    \/ a > 0 /\ b > 0 /\ a > INT_MAX - b
    \/ a < 0 /\ b < 0 /\ a < INT_MIN - b

\* a + b reduced modulo 2^32 into the int32_t range
Add32(a, b) ==
    IF a > 0 /\ b > 0 /\ a > INT_MAX - b THEN (a + INT_MIN) + (b + INT_MIN)
    ELSE IF a < 0 /\ b < 0 /\ a < INT_MIN - b THEN (a - INT_MIN) + (b - INT_MIN)
    ELSE a + b

\* a * -1 (i_ineg)
Neg32(a) == IF a = INT_MIN THEN INT_MIN ELSE -a

SubOverflows(a, b) ==
    IF b = INT_MIN THEN a >= 0 ELSE AddOverflows(a, -b)

\* a - b reduced modulo 2^32
Sub32(a, b) == IF b = INT_MIN THEN Add32(a, INT_MIN) ELSE Add32(a, -b)

RECURSIVE MulAcc32(_, _, _)
\* acc + a * n reduced modulo 2^32, for n >= 0, by doubling
\* (x and y are bound to values, so that each sum is computed once)
MulAcc32(acc, a, n) ==
    IF n = 0 THEN acc
    ELSE CHOOSE r \in { MulAcc32(x, y, n \div 2) :
                            x \in {IF n % 2 = 1 THEN Add32(acc, a) ELSE acc},
                            y \in {Add32(a, a)} } : TRUE

MulNat32(a, n) == MulAcc32(0, a, n)

\* a * b reduced modulo 2^32
Mul32(a, b) ==
    IF b >= 0 THEN MulNat32(a, b)
    ELSE Add32(MulNat32(a, b - INT_MIN), IF a % 2 = 1 THEN INT_MIN ELSE 0)

Abs31(a) == IF a < 0 THEN (IF a = INT_MIN THEN INT_MAX ELSE -a) ELSE a

\* |a| * n <= INT_MAX, for n >= 0 (a sufficient test that a * n fits)
MulFits(a, n) ==
    IF n = 0 \/ a = 0 THEN TRUE
    ELSE Abs31(a) <= INT_MAX \div n

MulOverflows(a, b) ==
    IF a = INT_MIN THEN b \notin {0, 1}
    ELSE IF b = INT_MIN THEN a \notin {0, 1}
    ELSE ~MulFits(a, Abs31(b))

\* a quotient rounded toward minus infinity instead
DivPosFloor(a, b) == a \div b

\* a / b of C for b > 0: the quotient truncated toward zero
DivPos(a, b) ==
    IF a >= 0 \/ a % b = 0 THEN a \div b ELSE (a \div b) + 1

\* INT_MIN / -1 and INT_MIN % -1: the quotient is not an int32_t
DivOverflows(a, b) == a = INT_MIN /\ b = -1

\* a / b of C, for b # 0 and no overflow
Div32(a, b) ==
    IF b > 0 THEN DivPos(a, b)
    ELSE IF b = INT_MIN THEN (IF a = INT_MIN THEN 1 ELSE 0)
    ELSE -DivPos(a, -b)

\* a % b for b > 0: the remainder takes the sign of a
RemPos(a, b) ==
    IF a >= 0 \/ a % b = 0 THEN a % b ELSE (a % b) - b

\* a % b of C, for b # 0 and no overflow
Rem32(a, b) ==
    IF b > 0 THEN RemPos(a, b)
    ELSE IF b = INT_MIN THEN (IF a = INT_MIN THEN 0 ELSE a)
    ELSE RemPos(a, -b)

RECURSIVE Shl32(_, _)
\* a << s on the bit pattern, for 0 <= s < 32
Shl32(a, s) ==
    IF s = 0 THEN a
    ELSE CHOOSE r \in { Shl32(x, s - 1) : x \in {Add32(a, a)} } : TRUE

RECURSIVE Shr32(_, _)
\* a >> s of a signed int (arithmetic shift), for 0 <= s < 32
Shr32(a, s) == IF s = 0 THEN a ELSE Shr32(a \div 2, s - 1)

\* a right shift that keeps the sign whatever the instruction
UshrSigned(a, s) == Shr32(a, s)

\* (unsigned) a >> s, for 0 <= s < 32
Ushr32(a, s) ==
    IF s = 0 \/ a >= 0 THEN Shr32(a, s)
    ELSE Shr32((a \div 2) - INT_MIN, s - 1)

RECURSIVE And32(_, _)
And32(a, b) ==
    IF a = 0 \/ b = 0 THEN 0
    ELSE IF a = -1 THEN b
    ELSE IF b = -1 THEN a
    ELSE 2 * And32(a \div 2, b \div 2) + ((a % 2) * (b % 2))

RECURSIVE Or32(_, _)
Or32(a, b) ==
    IF a = 0 THEN b
    ELSE IF b = 0 THEN a
    ELSE IF a = -1 \/ b = -1 THEN -1
    ELSE 2 * Or32(a \div 2, b \div 2) + (IF a % 2 = 1 \/ b % 2 = 1 THEN 1 ELSE 0)

RECURSIVE Xor32(_, _)
Xor32(a, b) ==
    IF a = 0 THEN b
    ELSE IF b = 0 THEN a
    ELSE IF a = -1 /\ b = -1 THEN 0
    ELSE 2 * Xor32(a \div 2, b \div 2) + (IF a % 2 # b % 2 THEN 1 ELSE 0)

\* a byte taken as it is, without the sign
Int8Unsigned(b) == b

\* (uint32_t) of an int32_t, held as its top bit and its low 31 bits, and
\* the conversion back on assignment to an int32_t
U32(v) == [hi |-> IF v < 0 THEN 1 ELSE 0, lo |-> IF v < 0 THEN v - INT_MIN ELSE v]
I32(u) == IF u.hi = 1 THEN u.lo + INT_MIN ELSE u.lo

\* (int8_t) of a byte
Int8(b) == IF b >= 128 THEN b - 256 ELSE b

\* (int16_t) / (signed short) of ((b1 << 8) | b2)
Int16(b1, b2) ==
    LET v == b1 * 256 + b2 IN IF v >= 32768 THEN v - 65536 ELSE v

(***************************************************************************)
(* Opcodes (jvm.h, the standard JVM numbering), named as in the dispatch   *)
(* switch of execute.                                                      *)
(***************************************************************************)
i_nop == 0
i_iconst_m1 == 2
i_iconst_0 == 3
i_iconst_1 == 4
i_iconst_2 == 5
i_iconst_3 == 6
i_iconst_4 == 7
i_iconst_5 == 8
i_bipush == 16
i_sipush == 17
i_ldc == 18
i_iload == 21
i_aload == 25
i_iload_0 == 26
i_iload_1 == 27
i_iload_2 == 28
i_iload_3 == 29
i_aload_0 == 42
i_aload_1 == 43
i_aload_2 == 44
i_aload_3 == 45
i_iaload == 46
i_istore == 54
i_astore == 58
i_istore_0 == 59
i_istore_1 == 60
i_istore_2 == 61
i_istore_3 == 62
i_astore_0 == 75
i_astore_1 == 76
i_astore_2 == 77
i_astore_3 == 78
i_iastore == 79
i_dup == 89
i_iadd == 96
i_isub == 100
i_imul == 104
i_idiv == 108
i_irem == 112
i_ineg == 116
i_ishl == 120
i_ishr == 122
i_iushr == 124
i_iand == 126
i_ior == 128
i_ixor == 130
i_iinc == 132
i_ifeq == 153
i_ifne == 154
i_iflt == 155
i_ifge == 156
i_ifgt == 157
i_ifle == 158
i_if_icmpeq == 159
i_if_icmpne == 160
i_if_icmplt == 161
i_if_icmpge == 162
i_if_icmpgt == 163
i_if_icmple == 164
i_goto == 167
i_ireturn == 172
i_areturn == 176
i_return == 177
i_getstatic == 178
i_invokevirtual == 182
i_invokestatic == 184
i_newarray == 188
i_arraylength == 190

(***************************************************************************)
(* Memory.                                                                 *)
(***************************************************************************)
\* What a read outside an array may find.
Garbage == {-1, 0, 5}
\* What a read past the end of a method's code may find.
GarbageBytes == {0, 255}

\* size_t arithmetic wraps; this modulus stands for 2^64, which TLC's
\* integers cannot hold.  Every code length of the model is far below it.
SIZE_MOD == 2^30
SizeT(x) == x % SIZE_MOD

\* calloc(sizeof(int32_t), n)
Zeros(n) == [i \in 1..n |-> 0]

InArr(arr, i) == 0 <= i /\ i < Len(arr)
\* the values arr[i] may yield
Rd(arr, i) == IF InArr(arr, i) THEN {arr[i + 1]} ELSE Garbage
\* arr after arr[i] = v
Wr(arr, i, v) == IF InArr(arr, i) THEN [arr EXCEPT ![i + 1] = v] ELSE arr

(***************************************************************************)
(* The class file: methods (code, max_stack, max_locals, parameter count)  *)
(* and the constant pool.  A pool entry is an integer literal or a method  *)
(* reference.                                                              *)
(***************************************************************************)
Method(code, max_stack, max_locals, params) ==
    [code |-> code, max_stack |-> max_stack, max_locals |-> max_locals,
     params |-> params, name |-> "f", descriptor |-> "()I"]

\* the name and the descriptor of the method the driver runs
MAIN_METHOD == "main"
MAIN_DESCRIPTOR == "([Ljava/lang/String;)V"

\* find_method(name, descriptor, class): the number of the first method of
\* that name and descriptor, 0 for none
find_method(name, descriptor, c) ==
    LET hits == {i \in 1..Len(c.methods) :
                    /\ c.methods[i].name = name
                    /\ c.methods[i].descriptor = descriptor}
    IN  IF hits = {} THEN 0 ELSE CHOOSE i \in hits : \A j \in hits : i <= j

CInt(v) == [tag |-> "Integer", bytes |-> v, method |-> 0]
CRef(m) == [tag |-> "Methodref", bytes |-> 0, method |-> m]

\* find_method_from_index(index, class): the method's number, 0 for none
find_method_from_index(index) ==
    IF index >= 1 /\ index <= Len(class.constant_pool)
       /\ class.constant_pool[index].tag = "Methodref"
    THEN class.constant_pool[index].method
    ELSE 0

\* get_number_of_parameters(meth)
get_number_of_parameters(meth) == class.methods[meth].params

\* ((CONSTANT_Integer_info *) class->constant_pool[b - 1].info)->bytes
PoolInts(b) ==
    IF b >= 1 /\ b <= Len(class.constant_pool)
       /\ class.constant_pool[b].tag = "Integer"
    THEN {class.constant_pool[b].bytes}
    ELSE Garbage
PoolOK(b) ==
    b >= 1 /\ b <= Len(class.constant_pool)
    /\ class.constant_pool[b].tag = "Integer"

(***************************************************************************)
(* Frames: one activation of execute.                                      *)
(***************************************************************************)
\* The allocator: mem[p] is the state of the block calloc returned as
\* pointer p; pointer 0 is no block of the allocator (main's locals are an
\* array on main's own stack).
calloc(m) == Append(m, "live")
Returned(m) == Len(m) + 1
free(m, p) ==
    IF p = 0 THEN m
    ELSE [m EXCEPT ![p] = IF @ = "live" THEN "freed" ELSE "freed twice"]

\* lines 127-129: program_counter = 0, a zeroed operand stack, stack_size = 0;
\* locals_ptr and stack_ptr are the pointers `locals` and `operand_stack`
NewFrame(m, locals, locals_ptr, stack_ptr) ==
    [method |-> m, program_counter |-> 0,
     operand_stack |-> Zeros(class.methods[m].max_stack),
     stack_size |-> 0, locals |-> locals,
     locals_ptr |-> locals_ptr, stack_ptr |-> stack_ptr]

Cur == frames[Len(frames)]
Meth(f) == class.methods[f.method]
Code(f) == Meth(f).code

\* the loop condition of line 130
InLoop(f) == f.program_counter < Len(Code(f))
Opcode(f) == Code(f)[f.program_counter + 1]

Running == status = "running" /\ steps < MaxSteps /\ Len(frames) > 0
At(op) == Running /\ InLoop(Cur) /\ Opcode(Cur) = op
AtIn(lo, hi) == Running /\ InLoop(Cur) /\ Opcode(Cur) >= lo /\ Opcode(Cur) <= hi

\* method->code.code[program_counter + k]
CodeByte(f, k) ==
    IF InArr(Code(f), f.program_counter + k)
    THEN {Code(f)[f.program_counter + k + 1]}
    ELSE GarbageBytes
CodeOK(f, k) == InArr(Code(f), f.program_counter + k)

\* operand_stack[stack_size - k]
Peek(f, k) == Rd(f.operand_stack, f.stack_size - k)
PeekOK(f, k) == InArr(f.operand_stack, f.stack_size - k)

\* stack_help: stack[stack_size - num] = val; return stack_size - num + 1
stack_help(f, val, num) ==
    [f EXCEPT !.operand_stack = Wr(@, f.stack_size - num, val),
              !.stack_size = f.stack_size - num + 1]
HelpOK(f, num) == InArr(f.operand_stack, f.stack_size - num)

\* program_counter += n
Advance(f, n) == [f EXCEPT !.program_counter = SizeT(@ + n)]

\* a branch whose offset counts from the instruction after it
BranchTargetFromNext(pc, b1, b2) == SizeT(pc + 3 + Int16(b1, b2))

\* program_counter += (int16_t)((b1 << 8) | b2)
BranchTarget(pc, b1, b2) == SizeT(pc + Int16(b1, b2))

\* locals[slot]
Local(f, slot) == Rd(f.locals, slot)
LocalOK(f, slot) == InArr(f.locals, slot)

(***************************************************************************)
(* One iteration of the dispatch loop.                                     *)
(***************************************************************************)
Log(act, ub) ==
    [act |-> act, frames |-> frames, heap |-> heap, out |-> out,
     status |-> status, result |-> result, ub |-> ub, mem |-> mem]

\* The step ends with the frames fs, the heap h and the output o, unless
\* undefined behaviour (ub) crashes the process instead.
DoAlloc(act, fs, h, o, m, ub) ==
    /\ steps' = steps + 1
    /\ last' = Log(act, ub)
    /\ UNCHANGED <<class, result, others>>
    /\ \E crash \in (IF ub THEN BOOLEAN ELSE {FALSE}) :
          IF crash
          THEN status' = "crashed" /\ UNCHANGED <<frames, heap, out, mem>>
          ELSE /\ frames' = fs
               /\ heap' = h
               /\ out' = o
               /\ mem' = m
               /\ UNCHANGED status

\* a step that allocates and frees nothing
Do(act, fs, h, o, ub) == DoAlloc(act, fs, h, o, mem, ub)

\* The step changes only the current frame, to f.
DoFrame(act, f, ub) ==
    Do(act, [frames EXCEPT ![Len(frames)] = f], heap, out, ub)

\* A failed assert: abort().
Fatal(act) ==
    /\ steps' = steps + 1
    /\ last' = Log(act, FALSE)
    /\ status' = "fatal"
    /\ UNCHANGED <<class, frames, heap, out, result, mem, others>>

\* A NULL dereference.
Crash(act) ==
    /\ steps' = steps + 1
    /\ last' = Log(act, TRUE)
    /\ status' = "crashed"
    /\ UNCHANGED <<class, frames, heap, out, result, mem, others>>

Pop(f, n) == [f EXCEPT !.stack_size = @ - n]
\* a store that writes the value to every local of the frame
SetLocalAll(f, slot, v) == [f EXCEPT !.locals = [i \in DOMAIN @ |-> v]]
SetLocal(f, slot, v) == [f EXCEPT !.locals = Wr(@, slot, v)]

(***************************************************************************)
(* What the arithmetic of C may yield, and when it is undefined.           *)
(***************************************************************************)
\* a / b: for b = 0 (reached only without the assert) and for the
\* overflowing INT_MIN / -1 the hardware traps or yields some value
DivVals(a, b) ==
    IF b = 0 THEN Garbage
    ELSE IF DivOverflows(a, b) THEN {INT_MIN}
    ELSE {Div32(a, b)}
RemVals(a, b) ==
    IF b = 0 THEN Garbage
    ELSE IF DivOverflows(a, b) THEN {0}
    ELSE {Rem32(a, b)}
DivUB(a, b) == b = 0 \/ DivOverflows(a, b)

\* a shift by 32 or more: the count is taken modulo 32 or shifts all out
ShlVals(a, s) ==
    IF s < 0 THEN Garbage
    ELSE IF s < 32 THEN {Shl32(a, s)} ELSE {Shl32(a, s % 32), 0}
ShrVals(a, s) ==
    IF s < 0 THEN Garbage
    ELSE IF s < 32 THEN {Shr32(a, s)}
    ELSE {Shr32(a, s % 32), IF a < 0 THEN -1 ELSE 0}
UshrVals(a, s) ==
    IF s < 0 THEN Garbage
    ELSE IF s < 32 THEN {Ushr32(a, s)} ELSE {Ushr32(a, s % 32), 0}
ShiftUB(s) == s < 0 \/ s >= 32

\* a build without the divisor assert
DivisorAny(b) == TRUE

\* the asserts of the division and shift cases
DivisorOK(b) == b # 0
ShiftOK(s) == s >= 0

(***************************************************************************)
(* Return to the caller (lines 496-503) or to main (lines 631-632).        *)
(***************************************************************************)
\* a result that always carries a value
VoidWithValue == [has_value |-> TRUE, value |-> 0]

\* optional_value_t result = {.has_value = false}
Void == [has_value |-> FALSE, value |-> 0]
\* a value that is returned as absent
ValueAbsent(v) == [has_value |-> FALSE, value |-> v]

\* a.value = v; a.has_value = true
Value(v) == [has_value |-> TRUE, value |-> v]

\* a caller that is handed a value by every callee
ResumeAlwaysPush(caller, res) == Advance(stack_help(caller, res.value, 0), 3)

\* a caller that never takes the callee's value
ResumeDropValue(caller, res) == Advance(caller, 3)

\* The caller's frame once the callee has returned res: the value, if any,
\* is pushed and program_counter += 3.
Resume(caller, res) ==
    Advance(IF res.has_value THEN stack_help(caller, res.value, 0) ELSE caller, 3)

\* a driver that takes any result of main
MainAcceptsAny(res) == TRUE

\* main's assert(!result.has_value && "main() should return void")
MainAccepts(res) == ~res.has_value

\* a return that leaves the callee's locals to nobody
ReleaseStackOnly(m, f) == free(m, f.stack_ptr)

\* free(operand_stack) on the way out of execute of frame f (lines 148, 482,
\* 541, 601), then free(locals_queue) in its caller (line 497)
Release(m, f) == free(free(m, f.stack_ptr), f.locals_ptr)

Ret(act, res, ub0) ==
    LET n == Len(frames)
        ub == ub0 \/ (n > 1 /\ res.has_value /\ ~HelpOK(frames[n - 1], 0))
    IN  /\ steps' = steps + 1
        /\ last' = Log(act, ub)
        /\ UNCHANGED <<class, heap, out, others>>
        /\ \E crash \in (IF ub THEN BOOLEAN ELSE {FALSE}) :
              IF crash
              THEN status' = "crashed" /\ UNCHANGED <<frames, result, mem>>
              ELSE /\ result' = res
                   /\ mem' = Release(mem, frames[n])
                   /\ frames' = IF n = 1 THEN <<>>
                                ELSE Append(SubSeq(frames, 1, n - 2),
                                            Resume(frames[n - 1], res))
                   /\ status' = IF n > 1 THEN status
                                ELSE IF MainAccepts(res) THEN "exited"
                                ELSE "fatal"

(***************************************************************************)
(* The driver, main (lines 605-639).                                       *)
(***************************************************************************)
Main ==
    /\ status = "start"
    /\ steps' = steps + 1
    /\ last' = Log("main", FALSE)
    /\ UNCHANGED <<class, heap, out, result, others>>
    /\ LET main_method == find_method(MAIN_METHOD, MAIN_DESCRIPTOR, class)
       IN  IF main_method = 0
           THEN status' = "fatal" /\ UNCHANGED <<frames, mem>>
           ELSE /\ status' = "running"
                /\ frames' = <<NewFrame(main_method,
                                        Zeros(class.methods[main_method].max_locals),
                                        0, Returned(mem))>>
                /\ mem' = calloc(mem)

(***************************************************************************)
(* The cases of the dispatch switch, in the order of the source.           *)
(***************************************************************************)
bipush ==
    /\ At(i_bipush)
    /\ \E b \in CodeByte(Cur, 1) :
          DoFrame("bipush", Advance(stack_help(Cur, Int8(b), 0), 2),
                  ~CodeOK(Cur, 1) \/ ~HelpOK(Cur, 0))

\* A two-operand case through stack_help: the result r of operands a
\* (below) and b (on top) replaces them.
Binary(act, r, ub) ==
    DoFrame(act, Advance(stack_help(Cur, r, 2), 1),
            ub \/ ~PeekOK(Cur, 1) \/ ~PeekOK(Cur, 2))

iadd ==
    /\ At(i_iadd)
    /\ \E b \in Peek(Cur, 1), a \in Peek(Cur, 2) :
          Binary("iadd", Add32(b, a), AddOverflows(b, a))

return ==
    /\ At(i_return)
    /\ Ret("return", Void, FALSE)

\* a field read that pushes the field, taken as 0
getstatic_push ==
    /\ At(i_getstatic)
    /\ DoFrame("getstatic", Advance(stack_help(Cur, 0, 0), 3), ~HelpOK(Cur, 0))

getstatic ==
    /\ At(i_getstatic)
    /\ DoFrame("getstatic", Advance(Cur, 3), FALSE)

\* output that puts the newest line first
PrintedFirst(o, v) == <<v>> \o o

\* printf("%i\n", v): one more line of output, the integer v
Printed(o, v) == Append(o, v)

invokevirtual ==
    /\ At(i_invokevirtual)
    /\ \E v \in Peek(Cur, 1) :
          Do("invokevirtual",
             [frames EXCEPT ![Len(frames)] = Advance(Pop(Cur, 1), 3)],
             heap, Printed(out, v), ~PeekOK(Cur, 1))

iconst ==
    /\ AtIn(i_iconst_m1, i_iconst_5)
    /\ DoFrame("iconst",
               Advance(stack_help(Cur, Opcode(Cur) - i_iconst_m1 - 1, 0), 1),
               ~HelpOK(Cur, 0))

sipush ==
    /\ At(i_sipush)
    /\ \E b1 \in CodeByte(Cur, 1), b2 \in CodeByte(Cur, 2) :
          DoFrame("sipush", Advance(stack_help(Cur, Int16(b1, b2), 0), 3),
                  ~CodeOK(Cur, 2) \/ ~HelpOK(Cur, 0))

isub ==
    /\ At(i_isub)
    /\ \E b \in Peek(Cur, 1), a \in Peek(Cur, 2) :
          Binary("isub", Sub32(a, b), SubOverflows(a, b))

imul ==
    /\ At(i_imul)
    /\ \E b \in Peek(Cur, 1), a \in Peek(Cur, 2) :
          Binary("imul", Mul32(a, b), MulOverflows(a, b))

idiv ==
    /\ At(i_idiv)
    /\ \E b \in Peek(Cur, 1) :
          IF ~DivisorOK(b) THEN Fatal("idiv")
          ELSE \E a \in Peek(Cur, 2) : \E q \in DivVals(a, b) :
                  Binary("idiv", q, DivUB(a, b))

irem ==
    /\ At(i_irem)
    /\ \E b \in Peek(Cur, 1) :
          IF ~DivisorOK(b) THEN Fatal("irem")
          ELSE \E a \in Peek(Cur, 2) : \E r \in RemVals(a, b) :
                  Binary("irem", r, DivUB(a, b))

ineg ==
    /\ At(i_ineg)
    /\ \E a \in Peek(Cur, 1) :
          DoFrame("ineg", Advance(stack_help(Cur, Neg32(a), 1), 1),
                  ~PeekOK(Cur, 1) \/ a = INT_MIN)

ishl ==
    /\ At(i_ishl)
    /\ \E b \in Peek(Cur, 1) :
          IF ~ShiftOK(b) THEN Fatal("ishl")
          ELSE \E a \in Peek(Cur, 2) : \E r \in ShlVals(a, b) :
                  Binary("ishl", r, ShiftUB(b))

ishr ==
    /\ At(i_ishr)
    /\ \E b \in Peek(Cur, 1) :
          IF ~ShiftOK(b) THEN Fatal("ishr")
          ELSE \E a \in Peek(Cur, 2) : \E r \in ShrVals(a, b) :
                  Binary("ishr", r, ShiftUB(b))

iushr ==
    /\ At(i_iushr)
    /\ \E b \in Peek(Cur, 1) :
          IF ~ShiftOK(b) THEN Fatal("iushr")
          ELSE \E a \in Peek(Cur, 2) : \E r \in UshrVals(a, b) :
                  Binary("iushr", r, ShiftUB(b))

iand ==
    /\ At(i_iand)
    /\ \E b \in Peek(Cur, 1), a \in Peek(Cur, 2) :
          Binary("iand", And32(a, b), FALSE)

ior ==
    /\ At(i_ior)
    /\ \E b \in Peek(Cur, 1), a \in Peek(Cur, 2) :
          Binary("ior", Or32(a, b), FALSE)

ixor ==
    /\ At(i_ixor)
    /\ \E b \in Peek(Cur, 1), a \in Peek(Cur, 2) :
          Binary("ixor", Xor32(a, b), FALSE)

\* operand_stack[stack_size] = locals[slot]; stack_size++
Load(act, slot, width, ub) ==
    \E v \in Local(Cur, slot) :
        DoFrame(act, Advance(stack_help(Cur, v, 0), width),
                ub \/ ~LocalOK(Cur, slot) \/ ~HelpOK(Cur, 0))

\* locals[slot] = operand_stack[stack_size - 1]; stack_size--
Store(act, slot, width, ub) ==
    \E v \in Peek(Cur, 1) :
        DoFrame(act, Advance(Pop(SetLocal(Cur, slot, v), 1), width),
                ub \/ ~LocalOK(Cur, slot) \/ ~PeekOK(Cur, 1))

iload ==
    /\ At(i_iload)
    /\ \E slot \in CodeByte(Cur, 1) : Load("iload", slot, 2, ~CodeOK(Cur, 1))

\* uint32_t val = operand_stack[stack_size - 1]; locals[slot] = val;
\* stack_size--
istore ==
    /\ At(i_istore)
    /\ \E slot \in CodeByte(Cur, 1) : \E v \in Peek(Cur, 1) :
          DoFrame("istore", Advance(Pop(SetLocal(Cur, slot, I32(U32(v))), 1), 2),
                  ~CodeOK(Cur, 1) \/ ~LocalOK(Cur, slot) \/ ~PeekOK(Cur, 1))

iload_n ==
    /\ AtIn(i_iload_0, i_iload_3)
    /\ Load("iload_n", Opcode(Cur) - i_iload_0, 1, FALSE)

istore_n ==
    /\ AtIn(i_istore_0, i_istore_3)
    /\ Store("istore_n", Opcode(Cur) - i_istore_0, 1, FALSE)

iinc ==
    /\ At(i_iinc)
    /\ \E slot \in CodeByte(Cur, 1), b \in CodeByte(Cur, 2) : \E v \in Local(Cur, slot) :
          DoFrame("iinc", Advance(SetLocal(Cur, slot, Add32(v, Int8(b))), 3),
                  ~CodeOK(Cur, 2) \/ ~LocalOK(Cur, slot)
                  \/ AddOverflows(v, Int8(b)))

ldc ==
    /\ At(i_ldc)
    /\ \E b \in CodeByte(Cur, 1) : \E v \in PoolInts(b) :
          DoFrame("ldc", Advance(stack_help(Cur, v, 0), 2),
                  ~CodeOK(Cur, 1) \/ ~PoolOK(b) \/ ~HelpOK(Cur, 0))

\* A branch: pops operands are dropped; taken, the counter moves by the
\* signed 16-bit offset, otherwise by 3.
\* a branch that pops its operands only when it is taken
JumpPopIfTaken(f, taken, b1, b2, pops) ==
    [f EXCEPT !.program_counter =
                  IF taken THEN SizeT(@ + Int16(b1, b2)) ELSE SizeT(@ + 3),
              !.stack_size = IF taken THEN @ - pops ELSE @]

Jump(f, taken, b1, b2, pops) ==
    [f EXCEPT !.program_counter =
                  IF taken THEN BranchTarget(@, b1, b2) ELSE SizeT(@ + 3),
              !.stack_size = @ - pops]

If1(act, a, taken) ==
    \E b1 \in CodeByte(Cur, 1), b2 \in CodeByte(Cur, 2) :
        DoFrame(act, Jump(Cur, taken, b1, b2, 1),
                ~PeekOK(Cur, 1) \/ (taken /\ ~CodeOK(Cur, 2)))

If2(act, taken) ==
    \E b1 \in CodeByte(Cur, 1), b2 \in CodeByte(Cur, 2) :
        DoFrame(act, Jump(Cur, taken, b1, b2, 2),
                ~PeekOK(Cur, 1) \/ ~PeekOK(Cur, 2) \/ (taken /\ ~CodeOK(Cur, 2)))

ifeq == At(i_ifeq) /\ \E a \in Peek(Cur, 1) : If1("ifeq", a, a = 0)
ifne == At(i_ifne) /\ \E a \in Peek(Cur, 1) : If1("ifne", a, a # 0)
iflt == At(i_iflt) /\ \E a \in Peek(Cur, 1) : If1("iflt", a, a < 0)
ifge == At(i_ifge) /\ \E a \in Peek(Cur, 1) : If1("ifge", a, a >= 0)
ifgt == At(i_ifgt) /\ \E a \in Peek(Cur, 1) : If1("ifgt", a, a > 0)
ifle == At(i_ifle) /\ \E a \in Peek(Cur, 1) : If1("ifle", a, a <= 0)

if_icmpeq ==
    At(i_if_icmpeq) /\ \E b \in Peek(Cur, 1), a \in Peek(Cur, 2) :
        If2("if_icmpeq", a = b)
if_icmpne ==
    At(i_if_icmpne) /\ \E b \in Peek(Cur, 1), a \in Peek(Cur, 2) :
        If2("if_icmpne", a # b)
if_icmplt ==
    At(i_if_icmplt) /\ \E b \in Peek(Cur, 1), a \in Peek(Cur, 2) :
        If2("if_icmplt", a < b)
if_icmpge ==
    At(i_if_icmpge) /\ \E b \in Peek(Cur, 1), a \in Peek(Cur, 2) :
        If2("if_icmpge", a >= b)
if_icmpgt ==
    At(i_if_icmpgt) /\ \E b \in Peek(Cur, 1), a \in Peek(Cur, 2) :
        If2("if_icmpgt", a > b)
if_icmple ==
    At(i_if_icmple) /\ \E b \in Peek(Cur, 1), a \in Peek(Cur, 2) :
        If2("if_icmple", a <= b)

goto ==
    /\ At(i_goto)
    /\ \E b1 \in CodeByte(Cur, 1), b2 \in CodeByte(Cur, 2) :
          DoFrame("goto", Jump(Cur, TRUE, b1, b2, 0), ~CodeOK(Cur, 2))

ireturn ==
    /\ At(i_ireturn)
    /\ \E a \in Peek(Cur, 1) : Ret("ireturn", Value(a), ~PeekOK(Cur, 1))

\* The values the copy loop of lines 492-495 reads for a callee of len
\* parameters: locals_queue[i] = operand_stack[stack_size - len + i].
PoppedArgsReversed(f, len) ==
    { [i \in 1..len |->
          IF InArr(f.operand_stack, f.stack_size - i)
          THEN f.operand_stack[f.stack_size - i + 1]
          ELSE g[i]] : g \in [1..len -> Garbage] }

PoppedArgs(f, len) ==
    { [i \in 1..len |->
          IF InArr(f.operand_stack, f.stack_size - len + i - 1)
          THEN f.operand_stack[f.stack_size - len + i]
          ELSE g[i]] : g \in [1..len -> Garbage] }
ArgsOK(f, len) ==
    \A i \in 1..len : InArr(f.operand_stack, f.stack_size - len + i - 1)

\* calloc(sizeof(int32_t), max_locals) with the arguments copied in
FillLocals(max_locals, args) ==
    [i \in 1..max_locals |-> IF i <= Len(args) THEN args[i] ELSE 0]

\* a caller whose locals are handed over to the callee and come back zeroed
SuspendShared(f, len) == [f EXCEPT !.stack_size = @ - len, !.locals = Zeros(Len(@))]

\* The caller's frame while the callee runs: the arguments are popped.
Suspend(f, len) == Pop(f, len)

invokestatic ==
    /\ At(i_invokestatic)
    /\ \E b1 \in CodeByte(Cur, 1), b2 \in CodeByte(Cur, 2) :
          LET meth == find_method_from_index(Int16(b1, b2))
          IN  IF meth = 0 THEN Crash("invokestatic")
              ELSE LET len == get_number_of_parameters(meth)
                       max_locals == class.methods[meth].max_locals
                   IN  \E args \in PoppedArgs(Cur, len) :
                          DoAlloc("invokestatic",
                             Append([frames EXCEPT ![Len(frames)] = Suspend(Cur, len)],
                                    NewFrame(meth, FillLocals(max_locals, args),
                                             Returned(mem), Returned(calloc(mem)))),
                             heap, out, calloc(calloc(mem)),
                             ~CodeOK(Cur, 2) \/ ~ArgsOK(Cur, len) \/ len > max_locals)

nop ==
    /\ At(i_nop)
    /\ DoFrame("nop", Advance(Cur, 1), FALSE)

dup ==
    /\ At(i_dup)
    /\ \E a \in Peek(Cur, 1) :
          DoFrame("dup", Advance(stack_help(Cur, a, 0), 1),
                  ~PeekOK(Cur, 1) \/ ~HelpOK(Cur, 0))

\* The heap: heap_add appends an array and returns its index.
heap_add(h, arr) == Append(h, arr)
HeapRef(h) == Len(h)
HeapOK(ref) == 0 <= ref /\ ref < Len(heap)
\* heap_get(heap, ref)
heap_get(ref) == heap[ref + 1]

\* newarr: slot 0 holds the count, slots 1..count are zero
NewArr(count) == <<count>> \o Zeros(count)
\* a build without the assert on the count
CountAny(count) == TRUE

\* assert(count + 1 > 0)
CountOK(count) == count >= 0

\* elements stored from slot 0, over the count
SlotFromZero(index) == index

\* index + 1, the slot of element index; a slot outside every array when
\* index + 1 overflows
Slot(index) == IF index = INT_MAX THEN -1 ELSE index + 1

newarray ==
    /\ At(i_newarray)
    /\ \E count \in Peek(Cur, 1) :
          IF ~CountOK(count) THEN Fatal("newarray")
          ELSE IF count > MaxAlloc THEN Crash("newarray")
          ELSE Do("newarray",
                  [frames EXCEPT ![Len(frames)] =
                      Advance(stack_help(Cur, HeapRef(heap), 1), 2)],
                  heap_add(heap, NewArr(count)), out, ~PeekOK(Cur, 1))

arraylength ==
    /\ At(i_arraylength)
    /\ \E ref \in Peek(Cur, 1) :
          \E len \in (IF HeapOK(ref) THEN {heap_get(ref)[1]} ELSE Garbage) :
             DoFrame("arraylength", Advance(stack_help(Cur, len, 1), 1),
                     ~PeekOK(Cur, 1) \/ ~HeapOK(ref))

areturn ==
    /\ At(i_areturn)
    /\ \E ref \in Peek(Cur, 1) : Ret("areturn", Value(ref), ~PeekOK(Cur, 1))

\* heap after arr[index + 1] = value on the array of ref
HeapStore(ref, index, value) ==
    IF HeapOK(ref)
    THEN [heap EXCEPT ![ref + 1] = Wr(@, Slot(index), value)]
    ELSE heap
ElemOK(ref, index) == HeapOK(ref) /\ InArr(heap_get(ref), Slot(index))

iastore ==
    /\ At(i_iastore)
    /\ \E value \in Peek(Cur, 1), index \in Peek(Cur, 2), ref \in Peek(Cur, 3) :
          Do("iastore",
             [frames EXCEPT ![Len(frames)] = Advance(Pop(Cur, 3), 1)],
             HeapStore(ref, index, value), out,
             ~PeekOK(Cur, 1) \/ ~PeekOK(Cur, 2) \/ ~PeekOK(Cur, 3)
             \/ ~ElemOK(ref, index))

iaload ==
    /\ At(i_iaload)
    /\ \E index \in Peek(Cur, 1), ref \in Peek(Cur, 2) :
          \E val \in (IF HeapOK(ref) THEN Rd(heap_get(ref), Slot(index))
                      ELSE Garbage) :
             DoFrame("iaload", Advance(stack_help(Cur, val, 2), 1),
                     ~PeekOK(Cur, 1) \/ ~PeekOK(Cur, 2) \/ ~ElemOK(ref, index))

aload ==
    /\ At(i_aload)
    /\ \E slot \in CodeByte(Cur, 1) : Load("aload", slot, 2, ~CodeOK(Cur, 1))

astore ==
    /\ At(i_astore)
    /\ \E slot \in CodeByte(Cur, 1) : Store("astore", slot, 2, ~CodeOK(Cur, 1))

aload_n ==
    /\ AtIn(i_aload_0, i_aload_3)
    /\ Load("aload_n", Opcode(Cur) - i_aload_0, 1, FALSE)

astore_n ==
    /\ AtIn(i_astore_0, i_astore_3)
    /\ Store("astore_n", Opcode(Cur) - i_astore_0, 1, FALSE)

\* a loop whose end is reached only by a fault
loop_exit_fatal ==
    /\ Running
    /\ ~InLoop(Cur)
    /\ Fatal("loop_exit")

\* The loop condition fails: lines 599-602 return void.
loop_exit ==
    /\ Running
    /\ ~InLoop(Cur)
    /\ Ret("loop_exit", Void, FALSE)

\* The opcodes the switch has a case for.
Handled ==
    {i_bipush, i_iadd, i_return, i_getstatic, i_invokevirtual, i_sipush,
     i_isub, i_imul, i_idiv, i_irem, i_ineg, i_ishl, i_ishr, i_iushr, i_iand,
     i_ior, i_ixor, i_iload, i_istore, i_iinc, i_ldc, i_ifeq, i_ifne, i_iflt,
     i_ifge, i_ifgt, i_ifle, i_if_icmpeq, i_if_icmpne, i_if_icmplt,
     i_if_icmpge, i_if_icmpgt, i_if_icmple, i_goto, i_ireturn,
     i_invokestatic, i_nop, i_dup, i_newarray, i_arraylength, i_areturn,
     i_iastore, i_iaload, i_aload, i_astore}
    \cup (i_iconst_m1..i_iconst_5) \cup (i_iload_0..i_iload_3)
    \cup (i_istore_0..i_istore_3) \cup (i_aload_0..i_aload_3)
    \cup (i_astore_0..i_astore_3)

\* a switch whose default skips the byte
unhandled_skip ==
    /\ Running
    /\ InLoop(Cur)
    /\ Opcode(Cur) \notin Handled
    /\ DoFrame("unhandled", Advance(Cur, 1), FALSE)

\* No case matches and the switch has no default: the loop iterates again
\* in the same state.
unhandled ==
    /\ Running
    /\ InLoop(Cur)
    /\ Opcode(Cur) \notin Handled
    /\ UNCHANGED vars

(***************************************************************************)
(* The class files the interpreter is run on.  Each carries a label, test, *)
(* that names the family it belongs to and its parameters.                 *)
(***************************************************************************)
Named(meth, name, descriptor) ==
    [meth EXCEPT !.name = name, !.descriptor = descriptor]
\* method number main, if any, is the entry method
Class(methods, pool, main, kind, p) ==
    [methods |-> [i \in 1..Len(methods) |->
                    IF i = main
                    THEN Named(methods[i], MAIN_METHOD, MAIN_DESCRIPTOR)
                    ELSE methods[i]],
     constant_pool |-> pool,
     test |-> [kind |-> kind, p |-> p]]

Byte(v) == IF v < 0 THEN v + 256 ELSE v

\* main of the classes that print what a static method returns
PrintMain(index) ==
    Method(<<i_getstatic, 0, 0, i_invokestatic, 0, index,
             i_invokevirtual, 0, 0, i_return>>, 1, 1, 0)

\* a OP b with literal pushes
ArithOps ==
    {i_iadd, i_isub, i_imul, i_idiv, i_irem, i_ishl, i_ishr, i_iushr,
     i_iand, i_ior, i_ixor}
ArithVals == (-MaxVal..MaxVal) \cup {31, 32, INT_MIN, INT_MAX}
ArithClass(op, a, b) ==
    Class(<<PrintMain(3), Method(<<i_ldc, 1, i_ldc, 2, op, i_ireturn>>, 2, 0, 0)>>,
          <<CInt(a), CInt(b), CRef(2)>>, 1, "arith", <<op, a, b>>)
NegClass(a) ==
    Class(<<PrintMain(2), Method(<<i_ldc, 1, i_ineg, i_ireturn>>, 1, 0, 0)>>,
          <<CInt(a), CRef(2)>>, 1, "neg", <<a>>)

\* a branch at position 6 of main, after its operands are pushed
If1Ops == {i_ifeq, i_ifne, i_iflt, i_ifge, i_ifgt, i_ifle}
If2Ops == {i_if_icmpeq, i_if_icmpne, i_if_icmplt, i_if_icmpge,
           i_if_icmpgt, i_if_icmple}
BranchVals == {-1, 0, 1}
\* offsets +3, +5, +6 (the end of the code), -4 and -7 (before position 0)
BranchOffsets == {<<0, 3>>, <<0, 5>>, <<0, 6>>, <<255, 252>>, <<255, 249>>}
BranchClass(pushes, op, a, b, off) ==
    Class(<<Method(<<i_nop, i_nop>> \o pushes \o <<op, off[1], off[2]>>
                   \o <<i_nop, i_nop, i_return>>, 2, 1, 0)>>,
          <<CInt(a), CInt(b)>>, 1, "branch", <<op, a, b>>)
BranchClasses ==
    {BranchClass(<<i_nop, i_nop, i_ldc, 1>>, op, a, 0, off) :
        op \in If1Ops, a \in BranchVals, off \in BranchOffsets}
    \cup {BranchClass(<<i_ldc, 1, i_ldc, 2>>, op, a, b, off) :
        op \in If2Ops, a \in BranchVals, b \in BranchVals, off \in BranchOffsets}
    \cup {BranchClass(<<i_nop, i_nop, i_nop, i_nop>>, i_goto, 0, 0, off) :
        off \in BranchOffsets}

\* a call of a callee of k parameters and k + extra locals; main pushes 9
\* and then the arguments 11, 22, ...
RECURSIVE PushArgs(_, _)
PushArgs(i, k) ==
    IF i > k THEN <<>> ELSE <<i_bipush, 11 * i>> \o PushArgs(i + 1, k)
\* ("... more": a print of 5 and a second return follow the return)
CalleeCode(ret) ==
    CASE ret = "int" -> <<i_bipush, 77, i_ireturn>>
      [] ret = "ref" -> <<i_iconst_2, i_newarray, 10, i_areturn>>
      [] ret = "void" -> <<i_return>>
      [] ret = "int more" ->
            <<i_bipush, 77, i_ireturn,
              i_bipush, 5, i_invokevirtual, 0, 0, i_ireturn>>
      [] ret = "ref more" ->
            <<i_iconst_2, i_newarray, 10, i_areturn,
              i_bipush, 5, i_invokevirtual, 0, 0, i_areturn>>
      [] ret = "void more" ->
            <<i_return, i_bipush, 5, i_invokevirtual, 0, 0, i_return>>
      [] OTHER -> <<>>
CallClass(k, extra, ret) ==
    Class(<<Method(<<i_bipush, 9>> \o PushArgs(1, k)
                   \o <<i_invokestatic, 0, 1, i_return>>, k + 2, 1, 0),
            Method(CalleeCode(ret), 1, k + extra, k)>>,
          <<CRef(2)>>, 1, "call", <<k, extra>>)
CallClasses ==
    {CallClass(k, extra, ret) :
        k \in 0..MaxParams, extra \in 0..1,
        ret \in {"int", "ref", "void", "end", "int more", "ref more", "void more"}}

\* f(n) = IF n = 0 THEN base ELSE n OP f(n - 1), called by main with n
RecCode(base, op) ==
    <<i_iload_0, i_ifne, 0, 5, base, i_ireturn,
      i_iload_0, i_iload_0, i_iconst_1, i_isub, i_invokestatic, 0, 2,
      op, i_ireturn>>
RecMain ==
    Method(<<i_getstatic, 0, 0, i_ldc, 1, i_invokestatic, 0, 2,
             i_invokevirtual, 0, 0, i_return>>, 1, 1, 0)
RecClass(kind, n) ==
    Class(<<RecMain,
            Method(IF kind = "sum" THEN RecCode(i_iconst_0, i_iadd)
                   ELSE RecCode(i_iconst_1, i_imul), 3, 1, 1)>>,
          <<CInt(n), CRef(2)>>, 1, kind, <<n>>)
RecClasses == {RecClass(kind, n) : kind \in {"sum", "fact"}, n \in 0..MaxDepth}

\* an array of n elements and one of 1 element; two stores; then every
\* element of the first array and its length are printed
ArrStores == [arr : {1, 2}, idx : -1..MaxArr]
StoreCode(s, v) ==
    <<i_aload_0 + s.arr, i_bipush, Byte(s.idx), i_bipush, v, i_iastore>>
RECURSIVE LoadsCode(_, _)
LoadsCode(i, n) ==
    IF i >= n THEN <<>>
    ELSE <<i_aload_1, i_bipush, i, i_iaload, i_invokevirtual, 0, 0>>
         \o LoadsCode(i + 1, n)
ArrayClass(n, s1, s2) ==
    Class(<<Method(<<i_ldc, 1, i_newarray, 10, i_astore_1,
                     i_iconst_1, i_newarray, 10, i_astore_2>>
                   \o StoreCode(s1, 7) \o StoreCode(s2, 8) \o LoadsCode(0, n)
                   \o <<i_aload_1, i_arraylength, i_invokevirtual, 0, 0,
                        i_return>>, 3, 3, 0)>>,
          <<CInt(n)>>, 1, "array", <<n, s1.arr, s1.idx, s2.arr, s2.idx>>)
ArrayClasses ==
    {ArrayClass(n, s1, s2) : n \in 0..MaxArr, s1 \in ArrStores, s2 \in ArrStores}

\* main prints the byte v, calls f and prints 5; f prints 2, calls g and
\* prints 4; g prints 3
NestedClass(v) ==
    Class(<<Method(<<i_bipush, v, i_invokevirtual, 0, 0, i_invokestatic, 0, 1,
                     i_bipush, 5, i_invokevirtual, 0, 0, i_return>>, 1, 1, 0),
            Method(<<i_bipush, 2, i_invokevirtual, 0, 0, i_invokestatic, 0, 2,
                     i_bipush, 4, i_invokevirtual, 0, 0, i_return>>, 1, 0, 0),
            Method(<<i_bipush, 3, i_invokevirtual, 0, 0, i_return>>, 1, 0, 0)>>,
          <<CRef(2), CRef(3)>>, 1, "nested", <<v>>)
NestedClasses == {NestedClass(v) : v \in {1, 200}}

\* unchecked streams: up to MaxRaw instructions and a return, run with one
\* stack slot and one local
RawInstrs ==
    {<<i_iconst_0>>, <<i_dup>>, <<i_iadd>>, <<i_idiv>>,
     <<i_istore_0>>, <<i_istore_1>>, <<i_iload_0>>,
     <<i_iload_3>>, <<i_iload, 0>>, <<i_iload, 2>>,
     <<i_istore, 1>>, <<i_aload, 0>>, <<i_aload, 4>>,
     <<i_astore, 1>>, <<i_aload_0>>, <<i_aload_2>>, <<i_astore_0>>,
     <<i_astore_3>>, <<i_iinc, 0, 255>>, <<i_iinc, 1, 1>>,
     <<i_invokevirtual, 0, 0>>, <<i_ireturn>>}
RECURSIVE RawCodes(_)
RawCodes(n) ==
    IF n = 0 THEN {<<>>}
    ELSE {<<>>} \cup {i \o c : i \in RawInstrs, c \in RawCodes(n - 1)}
RawClass(code) ==
    Class(<<Method(code \o <<i_return>>, 1, 1, 0)>>, <<>>, 1, "raw", <<>>)
RawClasses == {RawClass(c) : c \in RawCodes(MaxRaw)}

\* single classes: no main; code that ends without a return; truncated
\* operands; an unresolved call; bad constants, handles and lengths; an
\* opcode without a case
MiscClass(code, max_stack, pool, main) ==
    Class(<<Method(code, max_stack, 1, 0)>>, pool, main, "misc", <<>>)
MiscClasses ==
    {MiscClass(<<i_return>>, 0, <<>>, 0),
     MiscClass(<<>>, 0, <<>>, 1),
     MiscClass(<<i_iconst_1, i_istore_0>>, 1, <<>>, 1),
     MiscClass(<<i_bipush>>, 1, <<>>, 1),
     MiscClass(<<i_sipush, 1>>, 1, <<>>, 1),
     MiscClass(<<i_sipush, 255, 254, i_invokevirtual, 0, 0, i_return>>, 1, <<>>, 1),
     MiscClass(<<i_bipush, 200, i_invokevirtual, 0, 0, i_return>>, 1, <<>>, 1),
     MiscClass(<<i_invokestatic, 0, 1, i_return>>, 1, <<CInt(5)>>, 1),
     MiscClass(<<i_ldc, 1, i_return>>, 1, <<CRef(1)>>, 1),
     MiscClass(<<i_ldc, 1, i_arraylength, i_return>>, 1, <<CInt(3)>>, 1),
     MiscClass(<<i_iconst_0, i_iconst_0, i_iaload, i_return>>, 2, <<>>, 1),
     MiscClass(<<i_iconst_m1, i_newarray, 10, i_return>>, 1, <<>>, 1),
     MiscClass(<<i_bipush, 100, i_newarray, 10, i_return>>, 1, <<>>, 1),
     MiscClass(<<i_iconst_1, 1, i_return>>, 1, <<>>, 1),
     MiscClass(<<i_goto, 0, 0>>, 1, <<>>, 1)}

\* every constant push, each followed by a print of what it pushed
ConstPushes ==
    <<<<i_iconst_m1>>, <<i_iconst_0>>, <<i_iconst_1>>, <<i_iconst_2>>,
      <<i_iconst_3>>, <<i_iconst_4>>, <<i_iconst_5>>,
      <<i_bipush, 0>>, <<i_bipush, 127>>, <<i_bipush, 128>>, <<i_bipush, 255>>,
      <<i_sipush, 0, 0>>, <<i_sipush, 1, 0>>, <<i_sipush, 127, 255>>,
      <<i_sipush, 128, 0>>, <<i_sipush, 255, 255>>,
      <<i_ldc, 1>>, <<i_ldc, 2>>, <<i_ldc, 3>>>>
RECURSIVE ConstCode(_)
ConstCode(n) ==
    IF n = 0 THEN <<>>
    ELSE ConstCode(n - 1) \o ConstPushes[n] \o <<i_invokevirtual, 0, 0>>
ConstClass ==
    Class(<<Method(ConstCode(Len(ConstPushes)) \o <<i_return>>, 1, 1, 0)>>,
          <<CInt(7), CInt(INT_MIN), CInt(INT_MAX)>>, 1, "const", <<>>)

\* locals 0..4 are set to 10..14; then v is stored to slot s and loaded
\* back, the slot is incremented by the byte c and loaded again
LocalForms == {"i", "a", "i_n", "a_n"}
StoreInstr(form, s) ==
    CASE form = "i" -> <<i_istore, s>>
      [] form = "a" -> <<i_astore, s>>
      [] form = "i_n" -> <<i_istore_0 + s>>
      [] form = "a_n" -> <<i_astore_0 + s>>
LoadInstr(form, s) ==
    CASE form = "i" -> <<i_iload, s>>
      [] form = "a" -> <<i_aload, s>>
      [] form = "i_n" -> <<i_iload_0 + s>>
      [] form = "a_n" -> <<i_aload_0 + s>>
LocalFill ==
    <<i_bipush, 10, i_istore, 0, i_bipush, 11, i_istore, 1,
      i_bipush, 12, i_istore, 2, i_bipush, 13, i_istore, 3,
      i_bipush, 14, i_istore, 4>>
LocalClass(form, s, v, c) ==
    Class(<<Method(LocalFill \o <<i_ldc, 1>> \o StoreInstr(form, s)
                   \o LoadInstr(form, s) \o <<i_invokevirtual, 0, 0>>
                   \o <<i_iinc, s, c>> \o LoadInstr(form, s)
                   \o <<i_invokevirtual, 0, 0, i_return>>, 1, 5, 0)>>,
          <<CInt(v)>>, 1, "local", <<s, v, c>>)
LocalClasses ==
    {LocalClass(form, s, v, c) :
        form \in {"i", "a"}, s \in 0..4, v \in {7, INT_MIN}, c \in {127, 128, 255}}
    \cup {LocalClass(form, s, v, c) :
        form \in {"i_n", "a_n"}, s \in 0..3, v \in {7, INT_MIN}, c \in {127, 128, 255}}

\* classes whose first method prints 1 and has the name and descriptor
\* given, and whose second method, if it is there, is the entry method:
\* it stores to its locals, prints 2 and returns as ret says
EntryNames ==
    {<<"main", "()V">>, <<"run", "([Ljava/lang/String;)V">>,
     <<"main", "([Ljava/lang/String;)V">>}
EntryCode(ret) ==
    <<i_iconst_5, i_istore_1, i_iconst_2, i_invokevirtual, 0, 0>>
    \o (CASE ret = "void" -> <<i_return>>
          [] ret = "int" -> <<i_iconst_3, i_ireturn>>
          [] ret = "ref" -> <<i_iconst_0, i_areturn>>
          [] ret = "end" -> <<>>)
EntryClass(nd, second, ret) ==
    Class(<<Named(Method(<<i_iconst_1, i_invokevirtual, 0, 0, i_return>>, 1, 1, 0),
                  nd[1], nd[2])>>
          \o (IF second THEN <<Method(EntryCode(ret), 1, 3, 0)>> ELSE <<>>),
          <<>>, IF second THEN 2 ELSE 0, "entry", <<ret>>)
EntryClasses ==
    {EntryClass(nd, second, ret) :
        nd \in EntryNames, second \in BOOLEAN,
        ret \in {"void", "int", "ref", "end"}}

\* getstatic met with a local set, an array on the heap, a line printed and
\* two entries on the stack; and getstatic as the last byte of the code
StaticClasses ==
    {Class(<<Method(<<i_bipush, 7, i_istore_1, i_iconst_1, i_newarray, 10,
                      i_iconst_4, i_invokevirtual, 0, 0, i_iconst_3,
                      i_getstatic, 0, 0, i_invokevirtual, 0, 0,
                      i_arraylength, i_invokevirtual, 0, 0, i_return>>,
                    3, 2, 0)>>, <<>>, 1, "static", <<>>),
     Class(<<Method(<<i_iconst_2, i_getstatic>>, 1, 1, 0)>>,
           <<>>, 1, "static", <<>>)}

\* a callee that meets a byte without a case (1, 10 or 255) with 2 on its
\* stack and 9 in its local, called by a main that would print its result
UnknownClasses ==
    {Class(<<Method(<<i_getstatic, 0, 0, i_bipush, 9, i_invokestatic, 0, 1,
                      i_invokevirtual, 0, 0, i_return>>, 1, 1, 0),
             Method(<<i_iconst_2, b, i_ireturn>>, 1, 1, 1)>>,
           <<CRef(2)>>, 1, "unknown", <<b>>) : b \in {1, 10, 255}}

Programs ==
    {ConstClass} \cup LocalClasses \cup EntryClasses \cup StaticClasses \cup
    UnknownClasses \cup
    {ArithClass(op, a, b) : op \in ArithOps, a \in ArithVals, b \in ArithVals}
    \cup {NegClass(a) : a \in ArithVals}
    \cup BranchClasses \cup CallClasses \cup RecClasses \cup ArrayClasses
    \cup RawClasses \cup MiscClasses \cup NestedClasses

NoLog ==
    [act |-> "none", frames |-> <<>>, heap |-> <<>>, out |-> <<>>,
     status |-> "start", result |-> Void, ub |-> FALSE, mem |-> <<>>]

Init ==
    /\ class \in Programs
    /\ frames = <<>>
    /\ heap = <<>>
    /\ out = <<>>
    /\ status = "start"
    /\ result = Void
    /\ last = NoLog
    /\ steps = 0
    /\ mem = <<>>
    /\ OthersIdle


Next ==
    \/ Main
    \/ bipush \/ iadd \/ return \/ getstatic \/ invokevirtual \/ iconst
    \/ sipush \/ isub \/ imul \/ idiv \/ irem \/ ineg \/ ishl \/ ishr
    \/ iushr \/ iand \/ ior \/ ixor \/ iload \/ istore \/ iload_n
    \/ istore_n \/ iinc \/ ldc \/ ifeq \/ ifne \/ iflt \/ ifge \/ ifgt
    \/ ifle \/ if_icmpeq \/ if_icmpne \/ if_icmplt \/ if_icmpge
    \/ if_icmpgt \/ if_icmple \/ goto \/ ireturn \/ invokestatic \/ nop
    \/ dup \/ newarray \/ arraylength \/ areturn \/ iastore \/ iaload
    \/ aload \/ astore \/ aload_n \/ astore_n \/ loop_exit \/ unhandled

Spec == Init /\ [][Next]_vars

\* The process keeps running: an instruction that can execute does.
FairSpec == Spec /\ WF_vars(Next)

(***************************************************************************)
(* The directory tree (directory_tree.c).  A node is known by its pointer, *)
(* a number from 1; pointer 0 is NULL.  A name is the sequence of the      *)
(* bytes of the string.                                                    *)
(***************************************************************************)
\* Most calls of add_child_directory_tree in one run.
MaxCalls == 4

\* the interpreter's variables while another program runs
JvmIdle ==
    /\ class = <<>>
    /\ frames = <<>>
    /\ heap = <<>>
    /\ out = <<>>
    /\ status = "idle"
    /\ result = Void
    /\ last = NoLog
    /\ steps = 0
    /\ mem = <<>>

\* strcmp: the difference of the first bytes that differ, taken as unsigned
\* char, the end of a string counting as the byte 0
RECURSIVE strcmp(_, _)
strcmp(a, b) ==
    IF a = <<>> /\ b = <<>> THEN 0
    ELSE IF a = <<>> THEN 0 - Head(b)
    ELSE IF b = <<>> THEN Head(a)
    ELSE IF Head(a) # Head(b) THEN Head(a) - Head(b)
    ELSE strcmp(Tail(a), Tail(b))

\* init_directory_node: a directory with no children
init_directory_node(name) ==
    [name |-> name, type |-> "DIRECTORY_TYPE", num_children |-> 0,
     children |-> <<>>]

\* a search that also passes the children of the same name
PositionPastEqual(d, child_name, names, position) ==
    Cardinality({i \in 1..d.num_children :
                    strcmp(names[d.children[i]], child_name) <= 0})

\* the while loop of lines 47-55: the first position whose child is not
\* below the new name
RECURSIVE Position(_, _, _, _)
Position(d, child_name, names, position) ==
    IF position < d.num_children
       /\ strcmp(names[d.children[position + 1]], child_name) < 0
    THEN Position(d, child_name, names, position + 1)
    ELSE position

\* the for loop of lines 56-58: children[i] = children[i - 1] for i from
\* num_children down to position + 1
RECURSIVE ShiftUp(_, _, _)
ShiftUp(children, i, position) ==
    IF i > position
    THEN ShiftUp([children EXCEPT ![i + 1] = children[i]], i - 1, position)
    ELSE children

\* add_child_directory_tree(d, child) for d and child not NULL; names[c] is
\* c->name.  realloc gives one more slot, which is written before it is
\* read.
add_child(d, child, names) ==
    LET new_children == Append(d.children, 0)
        position == Position(d, names[child], names, 0)
        shifted == ShiftUp(new_children, d.num_children, position)
    IN  [d EXCEPT !.children = [shifted EXCEPT ![position + 1] = child],
                  !.num_children = @ + 1]

\* the nodes handed to the calls: two of the same name, one whose name
\* extends theirs, one with a byte above 127, one with the empty name
TreeNames == <<<<97>>, <<97>>, <<97, 98>>, <<200>>, <<>>>>

\* One call add_child_directory_tree(dn, child): dn is the node or NULL,
\* child a node or NULL.
add_child_directory_tree ==
    /\ Len(calls) < MaxCalls
    /\ \E dn \in BOOLEAN, child \in 0..Len(TreeNames) :
          /\ calls' = Append(calls, [dnode |-> dn, child |-> child])
          /\ dnode' = IF ~dn \/ child = 0 THEN dnode
                      ELSE add_child(dnode, child, TreeNames)
    /\ UNCHANGED <<class, frames, heap, out, status, result, last, steps, mem>>
    /\ UNCHANGED followVars

TreeInit ==
    /\ JvmIdle
    /\ FollowIdle
    /\ dnode = init_directory_node(<<82, 79, 79, 84>>)
    /\ calls = <<>>

TreeNext == add_child_directory_tree

TreeSpec == TreeInit /\ [][TreeNext]_vars

(***************************************************************************)
(* The FAT16 walk (src/unnamed/part_000).  The image is a sequence of      *)
(* slots of the size of one directory entry; a position is a byte offset.  *)
(* An open call of follow is one element of `activations`, the running     *)
(* one last; the callers below it wait at line 37.                         *)
(***************************************************************************)
\* Most entries before the terminator of the root directory of an image.
MaxEntries == 2

\* sizeof(directory_entry_t)
EntrySize == 32

Entry(filename, hidden, directory, first_cluster, file_size) ==
    [filename |-> filename, hidden |-> hidden, directory |-> directory,
     first_cluster |-> first_cluster, file_size |-> file_size]

is_hidden(entry) == entry.hidden
is_directory(entry) == entry.directory
\* the name without the spaces that pad it
RECURSIVE get_file_name(_)
get_file_name(entry) ==
    LET n == Len(entry.filename)
    IN  IF n > 0 /\ entry.filename[n] = 32
        THEN get_file_name([entry EXCEPT !.filename = SubSeq(@, 1, n - 1)])
        ELSE entry.filename
\* cluster 2 is the first of the data area
get_offset_from_cluster(cluster, bpb) ==
    SizeT(bpb.data_start + (cluster - 2) * bpb.cluster_bytes)
get_root_directory_location(bpb) == bpb.root

DiskSize == EntrySize * Len(disk.slots)
\* fread(&entry, sizeof(entry), 1, disk) == 1
CanRead == pos + EntrySize <= DiskSize
EntryAt(offset) == disk.slots[(offset \div EntrySize) + 1]
\* fread(file_size, entry.file_size, 1, disk) == 1 at the offset: no item
\* of size 0 is ever read, nor one that runs past the end of the image
CanReadFile(offset, file_size) ==
    file_size > 0 /\ offset + file_size <= DiskSize

\* init_file_node
init_file_node(name, size) == [name |-> name, type |-> "FILE_TYPE", size |-> size]

Following == fstatus = "running" /\ activations # <<>>
Top == activations[Len(activations)]
AtEntry == Following /\ CanRead /\ Head(EntryAt(pos).filename) # 0
\* long curr_offset = ftell(disk), after the entry is read
Handling == [activations EXCEPT ![Len(activations)].curr_offset = pos + EntrySize]

\* a walk that, after a subdirectory, goes on where the subdirectory ended
ResumeInPlace(callers, here) == here

\* line 50 in the caller of a call that returns: fseek(disk, curr_offset)
ResumeAt(callers, here) == callers[Len(callers)].curr_offset

\* attach node child, just made, to the node parent
Attach(parent, child) ==
    LET made == Append(nodes, child)
        names == [i \in 1..Len(made) |-> made[i].name]
    IN  [made EXCEPT ![parent] = add_child(@, Len(made), names)]

\* what no step of the walk touches
FollowKeeps ==
    /\ UNCHANGED <<class, frames, heap, out, status, result, last, steps, mem>>
    /\ UNCHANGED treeVars

\* lines 14-19: the entry begins with NUL; the call returns, and its
\* caller, if any, restores the position
follow_end ==
    /\ Following
    /\ CanRead
    /\ Head(EntryAt(pos).filename) = 0
    /\ reads' = Append(reads, pos)
    /\ activations' = SubSeq(activations, 1, Len(activations) - 1)
    /\ IF Len(activations) > 1
       THEN /\ pos' = ResumeAt(activations', pos + EntrySize)
            /\ UNCHANGED fstatus
       ELSE /\ pos' = pos + EntrySize
            /\ fstatus' = "done"
    /\ UNCHANGED <<disk, nodes>>
    /\ FollowKeeps

\* lines 28-31: a hidden entry
follow_hidden ==
    /\ AtEntry
    /\ is_hidden(EntryAt(pos))
    /\ reads' = Append(reads, pos)
    /\ activations' = Handling
    /\ pos' = pos + EntrySize
    /\ UNCHANGED <<disk, nodes, fstatus>>
    /\ FollowKeeps

\* lines 33-38: a directory entry; follow is called on the new node
follow_directory ==
    /\ AtEntry
    /\ ~is_hidden(EntryAt(pos))
    /\ is_directory(EntryAt(pos))
    /\ LET entry == EntryAt(pos)
           offset == get_offset_from_cluster(entry.first_cluster, disk.bpb)
       IN  /\ reads' = Append(reads, pos)
           /\ nodes' = Attach(Top.node, init_directory_node(get_file_name(entry)))
           /\ activations' =
                 Append(Handling,
                        [node |-> Len(nodes) + 1, start |-> offset, curr_offset |-> 0])
           /\ pos' = offset
    /\ UNCHANGED <<disk, fstatus>>
    /\ FollowKeeps

\* lines 40-50: a file entry whose contents are read
follow_file ==
    /\ AtEntry
    /\ ~is_hidden(EntryAt(pos))
    /\ ~is_directory(EntryAt(pos))
    /\ LET entry == EntryAt(pos)
           offset == get_offset_from_cluster(entry.first_cluster, disk.bpb)
       IN  /\ CanReadFile(offset, entry.file_size)
           /\ reads' = Append(reads, pos)
           /\ nodes' = Attach(Top.node,
                              init_file_node(get_file_name(entry), entry.file_size))
           /\ activations' = Handling
           /\ pos' = pos + EntrySize
    /\ UNCHANGED <<disk, fstatus>>
    /\ FollowKeeps

\* the asserts of lines 14 and 43: an entry or the contents of a file
\* cannot be read
follow_abort ==
    /\ Following
    /\ IF ~CanRead
       THEN UNCHANGED <<pos, reads, activations>>
       ELSE LET entry == EntryAt(pos)
                offset == get_offset_from_cluster(entry.first_cluster, disk.bpb)
            IN  /\ Head(entry.filename) # 0
                /\ ~is_hidden(entry)
                /\ ~is_directory(entry)
                /\ ~CanReadFile(offset, entry.file_size)
                /\ reads' = Append(reads, pos)
                /\ activations' = Handling
                /\ pos' = offset
    /\ fstatus' = "fatal"
    /\ UNCHANGED <<disk, nodes>>
    /\ FollowKeeps

\* The images.  The root directory is at offset 0; the data area begins at
\* offset 256 with clusters of 128 bytes: cluster 2 and 3 hold directories,
\* cluster 4 the contents of the files.
FileA == Entry(<<97, 32>>, FALSE, FALSE, 4, 1)
FileB == Entry(<<98, 32>>, FALSE, FALSE, 4, 40)
HiddenFile == Entry(<<104, 32>>, TRUE, FALSE, 4, 1)
HiddenDir == Entry(<<46, 32>>, TRUE, TRUE, 2, 0)
DirD == Entry(<<100, 32>>, FALSE, TRUE, 2, 0)
DirE == Entry(<<101, 32>>, FALSE, TRUE, 3, 0)
DirLast == Entry(<<108, 32>>, FALSE, TRUE, 4, 0)
EmptyFile == Entry(<<122, 32>>, FALSE, FALSE, 0, 0)
EndEntry == Entry(<<0, 0>>, FALSE, FALSE, 0, 0)
AfterEnd == Entry(<<120, 32>>, FALSE, FALSE, 4, 1)

RECURSIVE Tables(_, _)
Tables(kinds, n) ==
    IF n = 0 THEN {<<>>}
    ELSE {<<>>} \cup {<<k>> \o t : k \in kinds, t \in Tables(kinds, n - 1)}
\* the slots of a table from slot first on, the other slots as they were
Place(slots, first, table) ==
    [i \in 1..Len(slots) |->
        IF i >= first /\ i < first + Len(table) THEN table[i - first + 1]
        ELSE slots[i]]
Image(root, d, e, tail) ==
    [bpb |-> [root |-> 0, data_start |-> 256, cluster_bytes |-> 128],
     slots |-> Place(Place(Place(Place([i \in 1..20 |-> AfterEnd],
                                       1, root \o <<EndEntry, AfterEnd>>),
                                 9, d \o <<EndEntry>>),
                           13, e \o <<EndEntry>>),
                     17, tail)]
Images ==
    {Image(root, d, e, <<>>) :
        root \in Tables({FileA, FileB, HiddenFile, HiddenDir, DirD, EmptyFile},
                        MaxEntries),
        d \in {<<>>, <<HiddenDir, FileA>>, <<DirE, FileB>>, <<HiddenFile, EmptyFile>>},
        e \in {<<>>, <<FileA>>}}
    \cup {Image(<<FileB, DirLast>>, <<>>, <<>>, <<FileA, HiddenFile, FileB, FileA>>)}

\* main up to the call of follow on the root node (lines 66-78)
FollowInit ==
    /\ JvmIdle
    /\ dnode = <<>>
    /\ calls = <<>>
    /\ disk \in Images
    /\ pos = get_root_directory_location(disk.bpb)
    /\ activations = <<[node |-> 1, start |-> pos, curr_offset |-> 0]>>
    /\ nodes = <<init_directory_node(<<82, 79, 79, 84>>)>>
    /\ fstatus = "running"
    /\ reads = <<>>

FollowNext ==
    \/ follow_end
    \/ follow_hidden
    \/ follow_directory
    \/ follow_file
    \/ follow_abort

FollowSpec == FollowInit /\ [][FollowNext]_vars

(***************************************************************************)
(* Properties.  `last` holds the state before the latest step, so a state  *)
(* predicate can compare the two sides of the instruction just executed.   *)
(***************************************************************************)
\* the latest step was an iteration of the dispatch loop of frame Pre
Stepped == Len(last.frames) > 0
Pre == last.frames[Len(last.frames)]
\* the opcode that step executed; -1 when the loop condition had failed
PreOp == IF InLoop(Pre) THEN Opcode(Pre) ELSE -1
\* operand_stack[stack_size - k] before the step
PreTop(k) == Pre.operand_stack[Pre.stack_size - k + 1]
PreHas(k) == Pre.stack_size >= k /\ Pre.stack_size <= Len(Pre.operand_stack)
\* the step left the frame in place and the process alive
SameFrame == status = "running" /\ Len(frames) = Len(last.frames)

\* C1: a taken branch at position p with following bytes b1, b2 continues
\* at p + s, s the signed 16-bit value of (b1 << 8) | b2 (a target before
\* position 0 wraps the unsigned counter beyond the code); a conditional
\* branch not taken continues at p + 3.
C1_Taken(op, a, b) ==
    CASE op = i_ifeq -> b = 0
      [] op = i_ifne -> b # 0
      [] op = i_iflt -> b < 0
      [] op = i_ifge -> b >= 0
      [] op = i_ifgt -> b > 0
      [] op = i_ifle -> b <= 0
      [] op = i_if_icmpeq -> a = b
      [] op = i_if_icmpne -> a # b
      [] op = i_if_icmplt -> a < b
      [] op = i_if_icmpge -> a >= b
      [] op = i_if_icmpgt -> a > b
      [] op = i_if_icmple -> a <= b
      [] OTHER -> TRUE
C1_Offset ==
    LET v == Code(Pre)[Pre.program_counter + 2] * 256
             + Code(Pre)[Pre.program_counter + 3]
    IN  IF v >= 32768 THEN v - 65536 ELSE v
C1_BranchTarget ==
    (/\ Stepped
     /\ SameFrame
     /\ PreOp \in If1Ops \cup If2Ops \cup {i_goto}
     /\ Pre.program_counter + 2 < Len(Code(Pre))
     /\ PreHas(IF PreOp \in If2Ops THEN 2 ELSE IF PreOp = i_goto THEN 0 ELSE 1))
    => LET p == Pre.program_counter
           taken == C1_Taken(PreOp, IF PreOp \in If2Ops THEN PreTop(2) ELSE 0,
                             IF PreOp = i_goto THEN 0 ELSE PreTop(1))
       IN  IF ~taken THEN Cur.program_counter = p + 3
           ELSE IF p + C1_Offset >= 0 THEN Cur.program_counter = p + C1_Offset
           ELSE Cur.program_counter >= Len(Code(Pre))

\* a conditional branch was taken backward, to four bytes before itself
C1_Witness ==
    /\ Stepped
    /\ SameFrame
    /\ PreOp = i_if_icmplt
    /\ C1_Offset = -4
    /\ Cur.program_counter = Pre.program_counter - 4

\* C2: isub, idiv, irem, ishl, ishr and iushr on the stack [..., a, b] pop
\* both and push the one value a OP b: the difference, the quotient
\* truncated toward zero, the remainder with the sign of a (so that
\* a = (a / b) * b + a % b), and a shifted by b bits to the left, to the
\* right with the sign kept, and to the right with zeros entering.
C2_Ops == {i_isub, i_idiv, i_irem, i_ishl, i_ishr, i_iushr}
\* the operands for which C defines a OP b
C2_Defined(op, a, b) ==
    CASE op = i_isub -> IF b >= 0 THEN a >= INT_MIN + b ELSE a <= INT_MAX + b
      [] op \in {i_idiv, i_irem} -> b # 0 /\ ~(a = INT_MIN /\ b = -1)
      [] OTHER -> b >= 0 /\ b <= 31
\* |a| / |b| rounded down, for b outside {-1, 0, 1, INT_MIN}
C2_Magnitude(a, b) ==
    LET pb == IF b < 0 THEN -b ELSE b
    IN  IF a = INT_MIN
        THEN (INT_MAX \div pb) + (IF INT_MAX % pb = pb - 1 THEN 1 ELSE 0)
        ELSE (IF a < 0 THEN -a ELSE a) \div pb
C2_Quot(a, b) ==
    IF b = 1 THEN a
    ELSE IF b = -1 THEN -a
    ELSE IF b = INT_MIN THEN (IF a = INT_MIN THEN 1 ELSE 0)
    ELSE IF (a < 0) = (b < 0) THEN C2_Magnitude(a, b)
    ELSE -C2_Magnitude(a, b)
C2_Left(a, s) ==
    IF s = 0 THEN a
    ELSE IF s = 31 THEN (IF a % 2 = 1 THEN INT_MIN ELSE 0)
    ELSE LET h == 2^(31 - s)
         IN  IF (a \div h) % 2 = 1 THEN ((a % h) - h) * 2^s
             ELSE (a % h) * 2^s
C2_Right(a, s) ==
    IF s = 31 THEN (IF a < 0 THEN -1 ELSE 0) ELSE a \div 2^s
C2_RightZero(a, s) ==
    IF a >= 0 \/ s = 0 THEN C2_Right(a, s)
    ELSE IF s = 31 THEN 1
    ELSE ((a \div 2^s) + 2^(31 - s)) + 2^(31 - s)
C2_Expected(op, a, b) ==
    CASE op = i_isub -> a - b
      [] op = i_idiv -> C2_Quot(a, b)
      [] op = i_irem -> a - C2_Quot(a, b) * b
      [] op = i_ishl -> C2_Left(a, b)
      [] op = i_ishr -> C2_Right(a, b)
      [] OTHER -> C2_RightZero(a, b)
C2_TwoOperand ==
    (/\ Stepped
     /\ PreOp \in C2_Ops
     /\ PreHas(2)
     /\ C2_Defined(PreOp, PreTop(2), PreTop(1)))
    => LET a == PreTop(2)
           b == PreTop(1)
           r == C2_Expected(PreOp, a, b)
       IN  /\ SameFrame
           /\ Cur.stack_size = Pre.stack_size - 1
           /\ Cur.operand_stack[Cur.stack_size] = r
           /\ \A i \in 1..(Cur.stack_size - 1) :
                 Cur.operand_stack[i] = Pre.operand_stack[i]
           /\ Cur.program_counter = Pre.program_counter + 1
           /\ Cur.locals = Pre.locals
           /\ PreOp = i_irem => (r = 0 \/ ((r < 0) = (a < 0)))
           /\ heap = last.heap
           /\ out = last.out

\* -3 / 2 left -1 on the stack
C2_Witness ==
    /\ Stepped
    /\ SameFrame
    /\ PreOp = i_idiv
    /\ PreHas(2)
    /\ PreTop(2) = -3
    /\ PreTop(1) = 2
    /\ Cur.stack_size = Pre.stack_size - 1
    /\ Cur.operand_stack[Cur.stack_size] = -1

\* C3: invokestatic of a method with k parameters takes exactly the top k
\* values off the caller's stack; the callee starts at position 0 with an
\* empty stack and fresh locals of length max_locals, slot i < k holding the
\* i-th pushed argument (the top of the stack in slot k - 1) and every
\* other slot zero.
C3_Index ==
    Code(Pre)[Pre.program_counter + 2] * 256 + Code(Pre)[Pre.program_counter + 3]
\* the step was an invokestatic that entered a method
C3_Called ==
    /\ Stepped
    /\ PreOp = i_invokestatic
    /\ status = "running"
    /\ Len(frames) = Len(last.frames) + 1
    /\ Pre.program_counter + 2 < Len(Code(Pre))
    /\ C3_Index \in 1..Len(class.constant_pool)
C3_Callee == class.methods[class.constant_pool[C3_Index].method]
C3_ArgumentsToLocals ==
    (/\ C3_Called
     /\ PreHas(C3_Callee.params)
     /\ C3_Callee.params <= C3_Callee.max_locals)
    => LET k == C3_Callee.params
           caller == frames[Len(frames) - 1]
       IN  /\ caller.stack_size = Pre.stack_size - k
           /\ caller.operand_stack = Pre.operand_stack
           /\ caller.locals = Pre.locals
           /\ Meth(Cur) = C3_Callee
           /\ Cur.program_counter = 0
           /\ Cur.stack_size = 0
           /\ Len(Cur.locals) = C3_Callee.max_locals
           /\ \A i \in 0..(k - 1) :
                 Cur.locals[i + 1] = Pre.operand_stack[Pre.stack_size - k + i + 1]
           /\ \A i \in k..(C3_Callee.max_locals - 1) : Cur.locals[i + 1] = 0

\* 11 then 22 were pushed above a 9 and passed to a method of two
\* parameters and three locals
C3_Witness ==
    /\ C3_Called
    /\ C3_Callee.params = 2
    /\ Pre.stack_size = 3
    /\ Cur.locals = <<11, 22, 0>>
    /\ frames[Len(frames) - 1].stack_size = 1

\* C4: once the callee of an invokestatic with k parameters has completed,
\* the caller's stack is k shorter than before the instruction, plus one
\* exactly when the callee returned a value, which is then on top; a callee
\* that returned no value has nothing pushed; the caller's program counter
\* is 3 further.  Stated along the call: the suspended caller is k shorter
\* at the same position, stays as it is while the callee runs, and is
\* resumed on the callee's completion.
C4_Completed ==
    /\ Stepped
    /\ status = "running"
    /\ Len(last.frames) >= 2
    /\ Len(frames) = Len(last.frames) - 1
C4_Suspended == last.frames[Len(last.frames) - 1]
C4_ReturnsValue == PreOp \in {i_ireturn, i_areturn}
C4_AtCall ==
    (C3_Called /\ PreHas(C3_Callee.params))
    => LET caller == frames[Len(frames) - 1]
       IN  /\ caller.stack_size = Pre.stack_size - C3_Callee.params
           /\ caller.program_counter = Pre.program_counter
C4_During ==
    Stepped =>
       \A i \in 1..(Len(last.frames) - 1) :
          i < Len(frames) => frames[i] = last.frames[i]
C4_AtReturn ==
    (/\ C4_Completed
     /\ C4_ReturnsValue => PreHas(1)
     /\ C4_Suspended.stack_size >= 0
     /\ C4_Suspended.stack_size < Len(C4_Suspended.operand_stack))
    => /\ Cur.program_counter = C4_Suspended.program_counter + 3
       /\ Cur.locals = C4_Suspended.locals
       /\ \A i \in 1..C4_Suspended.stack_size :
             Cur.operand_stack[i] = C4_Suspended.operand_stack[i]
       /\ IF C4_ReturnsValue
          THEN /\ Cur.stack_size = C4_Suspended.stack_size + 1
               /\ Cur.operand_stack[Cur.stack_size] = PreTop(1)
          ELSE /\ Cur.stack_size = C4_Suspended.stack_size
               /\ Cur.operand_stack = C4_Suspended.operand_stack
\* main of the "call" classes pushes 9 and k arguments, then calls
C4_EndToEnd ==
    (/\ class.test.kind = "call"
     /\ status = "running"
     /\ Len(frames) = 1
     /\ Cur.program_counter = 2 * class.test.p[1] + 5)
    => LET code == class.methods[2].code
           value == Len(code) > 0 /\ code[Len(code)] \in {i_ireturn, i_areturn}
       IN  /\ Cur.stack_size = (class.test.p[1] + 1) - class.test.p[1]
                               + (IF value THEN 1 ELSE 0)
           /\ Cur.operand_stack[1] = 9
           /\ code = <<i_bipush, 77, i_ireturn>> => Cur.operand_stack[2] = 77
C4_CallerAfterCall == C4_AtCall /\ C4_During /\ C4_AtReturn /\ C4_EndToEnd

\* a callee of two parameters returned 77 to a caller that had pushed 9, 11
\* and 22 before the invokestatic at position 6
C4_Witness ==
    /\ C4_Completed
    /\ PreOp = i_ireturn
    /\ class.test.kind = "call"
    /\ class.test.p[1] = 2
    /\ Cur.program_counter = 9
    /\ Cur.stack_size = 2
    /\ Cur.operand_stack[1] = 9
    /\ Cur.operand_stack[2] = 77

\* C5: a method that calls itself with its argument decremented and
\* returns a constant for the argument 0 terminates for every recursion
\* depth 0..20, and the outermost invocation returns the value the
\* recurrence defines: the sum 0 + 1 + ... + n, or the product n! while it
\* is an int32_t (n <= 12).  main prints that value and exits.
RECURSIVE C5_Fact(_)
C5_Fact(n) == IF n = 0 THEN 1 ELSE n * C5_Fact(n - 1)
C5_Sum(n) == (n * (n + 1)) \div 2
C5_Covered ==
    \/ class.test.kind = "sum" /\ class.test.p[1] \in 0..MaxDepth
    \/ class.test.kind = "fact" /\ class.test.p[1] \in 0..12
C5_Expected ==
    IF class.test.kind = "sum" THEN C5_Sum(class.test.p[1])
    ELSE C5_Fact(class.test.p[1])
C5_Done ==
    /\ C5_Covered
    /\ status = "exited"
    /\ frames = <<>>
    /\ out = <<C5_Expected>>
C5_RecursionTerminates == (C5_Covered /\ status = "start") ~> C5_Done

\* the recursion of depth 20 has returned 210 through 21 frames
C5_Witness ==
    /\ class.test.kind = "sum"
    /\ class.test.p[1] = 20
    /\ C5_Done
    /\ out = <<210>>

\* C6: newarray with length n >= 0 returns a handle on which arraylength
\* yields n at any later point and iaload at an index i in 0..n-1 yields
\* the value of the latest iastore at that index of that array, 0 if there
\* was none, whatever was stored in between at other indices within the
\* length of the same array or within other arrays.  Stated per step: a
\* new array holds its length and zeros, a store changes the one element,
\* a load and arraylength read it back, and nothing else touches the heap;
\* and end to end on the "array" classes, which print what they read.
C6_IsArray(h, ref) ==
    /\ ref \in 0..(Len(h) - 1)
    /\ h[ref + 1][1] = Len(h[ref + 1]) - 1
C6_InLength(h, ref, i) == C6_IsArray(h, ref) /\ i \in 0..(h[ref + 1][1] - 1)
C6_Pushed(v, pops) ==
    /\ SameFrame
    /\ Cur.stack_size = Pre.stack_size - pops + 1
    /\ Cur.operand_stack[Cur.stack_size] = v
C6_AtNewarray ==
    (Stepped /\ PreOp = i_newarray /\ PreHas(1) /\ PreTop(1) \in 0..MaxAlloc)
    => /\ C6_Pushed(Len(last.heap), 1)
       /\ Len(heap) = Len(last.heap) + 1
       /\ \A r \in 1..Len(last.heap) : heap[r] = last.heap[r]
       /\ Len(heap[Len(heap)]) = PreTop(1) + 1
       /\ heap[Len(heap)][1] = PreTop(1)
       /\ \A i \in 1..PreTop(1) : heap[Len(heap)][i + 1] = 0
C6_AtIastore ==
    (Stepped /\ PreOp = i_iastore /\ PreHas(3)
     /\ C6_InLength(last.heap, PreTop(3), PreTop(2)))
    => /\ SameFrame
       /\ Cur.stack_size = Pre.stack_size - 3
       /\ Len(heap) = Len(last.heap)
       /\ \A r \in 1..Len(heap) :
             /\ Len(heap[r]) = Len(last.heap[r])
             /\ \A j \in 1..Len(heap[r]) :
                   heap[r][j] = IF r = PreTop(3) + 1 /\ j = PreTop(2) + 2
                                THEN PreTop(1)
                                ELSE last.heap[r][j]
C6_AtIaload ==
    (Stepped /\ PreOp = i_iaload /\ PreHas(2)
     /\ C6_InLength(last.heap, PreTop(2), PreTop(1)))
    => C6_Pushed(last.heap[PreTop(2) + 1][PreTop(1) + 2], 2)
C6_AtArraylength ==
    (Stepped /\ PreOp = i_arraylength /\ PreHas(1)
     /\ C6_IsArray(last.heap, PreTop(1)))
    => C6_Pushed(Len(last.heap[PreTop(1) + 1]) - 1, 1)
C6_Elsewhere ==
    (Stepped /\ PreOp \notin {i_newarray, i_iastore}) => heap = last.heap
\* the "array" classes: arrays 1 (n elements) and 2 (1 element); 7 is
\* stored at p[3] of array p[2], then 8 at p[5] of array p[4]
C6_InRange(n, arr, idx) == idx >= 0 /\ idx < (IF arr = 1 THEN n ELSE 1)
C6_Element(i) ==
    LET p == class.test.p
    IN  IF p[4] = 1 /\ p[5] = i THEN 8
        ELSE IF p[2] = 1 /\ p[3] = i THEN 7
        ELSE 0
C6_EndToEnd ==
    (/\ class.test.kind = "array"
     /\ C6_InRange(class.test.p[1], class.test.p[2], class.test.p[3])
     /\ C6_InRange(class.test.p[1], class.test.p[4], class.test.p[5])
     /\ status = "exited")
    => out = [i \in 1..(class.test.p[1] + 1) |->
                 IF i <= class.test.p[1] THEN C6_Element(i - 1)
                 ELSE class.test.p[1]]
C6_ArrayRoundTrip ==
    /\ C6_AtNewarray
    /\ C6_AtIastore
    /\ C6_AtIaload
    /\ C6_AtArraylength
    /\ C6_Elsewhere
    /\ C6_EndToEnd

\* 7 and then 8 were stored at index 0 of an array of length 2; 8, 0 and the
\* length 2 were read back
C6_Witness ==
    /\ class.test.kind = "array"
    /\ class.test.p = <<2, 1, 0, 1, 0>>
    /\ status = "exited"
    /\ out = <<8, 0, 2>>

\* C7: idiv or irem with 0 on top of the stack, and ishl, ishr or iushr
\* with a negative value on top, end the run in a fatal fault: nothing is
\* pushed or popped, no frame, heap cell or output changes, no return
\* value is produced, and nothing executes after the fault.
C7_BadOperand ==
    /\ Stepped
    /\ PreHas(1)
    /\ \/ PreOp \in {i_idiv, i_irem} /\ PreTop(1) = 0
       \/ PreOp \in {i_ishl, i_ishr, i_iushr} /\ PreTop(1) < 0
C7_Aborted ==
    /\ status = "fatal"
    /\ frames = last.frames
    /\ heap = last.heap
    /\ out = last.out
    /\ result = last.result
C7_FatalOperand ==
    /\ [](C7_BadOperand => C7_Aborted)
    /\ [][status = "fatal" => UNCHANGED vars]_vars

\* 3 / 0 in a called method stopped the run with both frames in place and
\* nothing printed
C7_Witness ==
    /\ C7_BadOperand
    /\ PreOp = i_idiv
    /\ PreHas(2)
    /\ PreTop(2) = 3
    /\ C7_Aborted
    /\ Len(frames) = 2
    /\ out = <<>>

\* C8: in every reachable state the operand-stack depth d of every
\* invocation satisfies 0 <= d <= max_stack of its method, whatever the
\* bytecode: an instruction that would underflow or overflow the stack is
\* a fatal fault and is not carried out.
C8_DepthWithinMax ==
    \A i \in 1..Len(frames) :
       /\ frames[i].stack_size >= 0
       /\ frames[i].stack_size <= Meth(frames[i]).max_stack

\* C9: an instruction that names a local slot >= max_locals of the current
\* method (iload, istore, aload, astore, iinc by their operand byte, the
\* fast forms by their opcode) is a fatal fault: it reads and writes
\* nothing and execution does not continue.
C9_WithByte == {i_iload, i_istore, i_aload, i_astore, i_iinc}
C9_NamedSlot ==
    IF PreOp \in C9_WithByte
    THEN IF Pre.program_counter + 1 < Len(Code(Pre))
         THEN Code(Pre)[Pre.program_counter + 2]
         ELSE -1
    ELSE IF PreOp \in i_iload_0..i_iload_3 THEN PreOp - i_iload_0
    ELSE IF PreOp \in i_istore_0..i_istore_3 THEN PreOp - i_istore_0
    ELSE IF PreOp \in i_aload_0..i_aload_3 THEN PreOp - i_aload_0
    ELSE IF PreOp \in i_astore_0..i_astore_3 THEN PreOp - i_astore_0
    ELSE -1
C9_BadSlotFatal ==
    (Stepped /\ C9_NamedSlot >= Meth(Pre).max_locals)
    => /\ status = "fatal"
       /\ frames = last.frames
       /\ heap = last.heap
       /\ out = last.out

\* C10 as stated: every invocation that completes has executed a return
\* instruction (return, ireturn or areturn), which produced its result;
\* none completes having executed no return instruction.
C10_Returns == {i_return, i_ireturn, i_areturn}
C10_Completed == Stepped /\ Len(frames) = Len(last.frames) - 1
C10_OneReturnAlways == C10_Completed => PreOp \in C10_Returns

\* C10: an invocation that completes either has executed exactly one
\* return instruction, its last instruction, which produced its result (the
\* top of the stack for ireturn and areturn, no value for return), or has
\* left the loop with the program counter at or beyond code_length having
\* executed no return instruction, and then its result is no value.
C10_NoValue == [has_value |-> FALSE, value |-> 0]
C10_ReturnOrEnd ==
    /\ (Stepped /\ PreOp \in C10_Returns /\ status # "crashed")
       => C10_Completed
    /\ Stepped => Len(frames) >= Len(last.frames) - 1
    /\ C10_Completed =>
          \/ /\ PreOp = i_return
             /\ result = C10_NoValue
          \/ /\ PreOp \in {i_ireturn, i_areturn}
             /\ PreHas(1) => result = [has_value |-> TRUE, value |-> PreTop(1)]
             /\ result.has_value
          \/ /\ Pre.program_counter >= Len(Code(Pre))
             /\ result = C10_NoValue

\* a called method with no code at all completed, and its caller went on
\* with nothing pushed
C10_Witness ==
    /\ C10_Completed
    /\ Len(last.frames) = 2
    /\ Code(Pre) = <<>>
    /\ result = C10_NoValue
    /\ status = "running"
    /\ Cur.stack_size = C4_Suspended.stack_size
    /\ Cur.program_counter = C4_Suspended.program_counter + 3

\* C11: ifeq..ifle take one value off the operand stack and
\* if_icmpeq..if_icmple two, taken or not, and change nothing else of the
\* stack; the two-operand forms branch exactly when a OP b holds for b the
\* top of the stack and a the value beneath it; goto leaves the depth as
\* it is and always branches.
C11_Pops == IF PreOp \in If1Ops THEN 1 ELSE IF PreOp \in If2Ops THEN 2 ELSE 0
C11_Branch ==
    /\ Stepped
    /\ PreOp \in If1Ops \cup If2Ops \cup {i_goto}
    /\ Pre.program_counter + 2 < Len(Code(Pre))
    /\ PreHas(C11_Pops)
C11_Holds ==
    LET a == PreTop(2)
        b == PreTop(1)
    IN  CASE PreOp = i_if_icmpeq -> a = b
          [] PreOp = i_if_icmpne -> ~(a = b)
          [] PreOp = i_if_icmplt -> a + 1 <= b
          [] PreOp = i_if_icmpge -> ~(a + 1 <= b)
          [] PreOp = i_if_icmpgt -> b + 1 <= a
          [] PreOp = i_if_icmple -> ~(b + 1 <= a)
          [] PreOp = i_goto -> TRUE
          [] OTHER -> C1_Taken(PreOp, 0, b)
C11_BranchPops ==
    C11_Branch
    => /\ SameFrame
       /\ Cur.stack_size = Pre.stack_size - C11_Pops
       /\ Cur.operand_stack = Pre.operand_stack
       /\ Cur.locals = Pre.locals
       /\ (C1_Offset # 3 /\ Pre.program_counter + C1_Offset >= 0)
          => (C11_Holds <=> Cur.program_counter = Pre.program_counter + C1_Offset)
       /\ ~C11_Holds => Cur.program_counter = Pre.program_counter + 3

\* if_icmplt on [-1, 1] was taken (-1 < 1, while 1 < -1 is false) and
\* left an empty stack
C11_Witness ==
    /\ C11_Branch
    /\ PreOp = i_if_icmplt
    /\ Pre.stack_size = 2
    /\ Cur.stack_size = 0
    /\ PreTop(2) = -1
    /\ PreTop(1) = 1
    /\ C1_Offset = 5
    /\ Cur.program_counter = Pre.program_counter + 5

\* a conditional branch that was not taken popped its operand
C11_WitnessNotTaken ==
    /\ C11_Branch
    /\ PreOp = i_ifeq
    /\ PreTop(1) = 1
    /\ Pre.stack_size = 1
    /\ Cur.stack_size = 0
    /\ Cur.program_counter = Pre.program_counter + 3

\* C12: for a shift amount s in 0..31, iushr pushes a's 32-bit pattern
\* shifted right with zeros entering at the top, floor((a mod 2^32) / 2^s)
\* (so -1 iushr 1 = 2147483647), and ishr pushes floor(a / 2^s), copies of
\* the sign bit entering (so -1 ishr 1 = -1); the two results are equal
\* exactly when a >= 0 or s = 0.  Stated bit by bit.
C12_Bit(x, i) == IF i = 31 THEN (IF x < 0 THEN 1 ELSE 0) ELSE (x \div 2^i) % 2
\* r is a shifted right by s with zeros entering
C12_IsUnsignedShift(r, a, s) ==
    \A i \in 0..31 :
       C12_Bit(r, i) = IF i + s <= 31 THEN C12_Bit(a, i + s) ELSE 0
\* r is a shifted right by s with the sign bit entering
C12_IsSignedShift(r, a, s) ==
    \A i \in 0..31 :
       C12_Bit(r, i) = C12_Bit(a, IF i + s <= 31 THEN i + s ELSE 31)
C12_Shift ==
    /\ Stepped
    /\ PreOp \in {i_ishr, i_iushr}
    /\ PreHas(2)
    /\ PreTop(1) \in 0..31
C12_ShiftRights ==
    C12_Shift
    => LET a == PreTop(2)
           s == PreTop(1)
           r == Cur.operand_stack[Cur.stack_size]
       IN  /\ SameFrame
           /\ Cur.stack_size = Pre.stack_size - 1
           /\ IF PreOp = i_iushr
              THEN /\ C12_IsUnsignedShift(r, a, s)
                   /\ C12_IsSignedShift(r, a, s) <=> (a >= 0 \/ s = 0)
                   /\ (a = -1 /\ s = 1) => r = 2147483647
              ELSE /\ C12_IsSignedShift(r, a, s)
                   /\ C12_IsUnsignedShift(r, a, s) <=> (a >= 0 \/ s = 0)
                   /\ (a = -1 /\ s = 1) => r = -1

\* -1 iushr 1 pushed 2147483647
C12_Witness ==
    /\ C12_Shift
    /\ PreOp = i_iushr
    /\ PreTop(2) = -1
    /\ PreTop(1) = 1
    /\ SameFrame
    /\ Cur.operand_stack[Cur.stack_size] = 2147483647

\* C13: calls run depth-first on private frames.  While a callee runs no
\* frame beneath it changes, so no instruction of the caller or of an
\* ancestor executes; invokestatic suspends the caller with its locals and
\* its stack entries as they were, and the return resumes it with the same
\* locals and the same entries below the consumed arguments: the callee
\* reaches its caller only through the returned value (and the heap).
\* Steps with undefined behaviour (an access outside an array) are left out.
C13_Defined == Stepped /\ ~last.ub /\ status # "crashed"
C13_BelowUntouched ==
    C13_Defined =>
       \A i \in 1..(Len(last.frames) - 1) :
          i < Len(frames) => frames[i] = last.frames[i]
C13_CallKeepsCaller ==
    (C13_Defined /\ C3_Called)
    => LET caller == frames[Len(frames) - 1]
       IN  /\ caller.locals = Pre.locals
           /\ caller.operand_stack = Pre.operand_stack
           /\ caller.method = Pre.method
           /\ \A i \in 1..(Len(frames) - 2) : frames[i] = last.frames[i]
C13_ReturnKeepsCaller ==
    (C13_Defined /\ C4_Completed)
    => /\ Cur.locals = C4_Suspended.locals
       /\ Cur.method = C4_Suspended.method
       /\ \A i \in 1..C4_Suspended.stack_size :
             Cur.operand_stack[i] = C4_Suspended.operand_stack[i]
\* the recursive classes: the i-th invocation of f was called with
\* n - (i - 1) and holds it beneath the argument of its own call
C13_Recursion ==
    class.test.kind \in {"sum", "fact"}
    => \A i \in 2..Len(frames) :
          /\ frames[i].locals = <<class.test.p[1] - (i - 2)>>
          /\ (i < Len(frames) \/ frames[i].program_counter = 13)
             => /\ frames[i].stack_size >= 1
                /\ frames[i].operand_stack[1] = frames[i].locals[1]
C13_DepthFirstPrivateFrames ==
    /\ C13_BelowUntouched
    /\ C13_CallKeepsCaller
    /\ C13_ReturnKeepsCaller
    /\ (status = "running" => C13_Recursion)

\* f(4) was resumed by the return of f(3), under main and f(5), with its
\* local and the entry beneath the consumed argument still 4
C13_Witness ==
    /\ C13_Defined
    /\ C4_Completed
    /\ class.test.kind = "sum"
    /\ class.test.p[1] = 5
    /\ Len(frames) = 3
    /\ Cur.locals = <<4>>
    /\ Cur.stack_size = 2
    /\ Cur.operand_stack[1] = 4
    /\ Cur.operand_stack[2] = 6

\* C14: the operand stack execute allocates is released exactly once on
\* each way out of the invocation (return, ireturn, areturn, the end of the
\* loop), and the locals array invokestatic allocates is released exactly
\* once by the caller after the callee has returned.  So the live blocks
\* are always exactly those of the invocations in progress, none is left
\* when the entry invocation has returned, no block is released twice, and
\* no invocation in progress holds a released block.
C14_Live(m) == {p \in 1..Len(m) : m[p] = "live"}
C14_Held ==
    {frames[i].stack_ptr : i \in 1..Len(frames)}
    \cup {frames[i].locals_ptr : i \in 2..Len(frames)}
C14_Accounted ==
    /\ \A p \in 1..Len(mem) : mem[p] \in {"live", "freed"}
    /\ C14_Live(mem) = C14_Held
    /\ Len(frames) > 0 => Cardinality(C14_Held) = 2 * Len(frames) - 1
    /\ (frames = <<>> /\ status \in {"exited", "fatal"}) => C14_Live(mem) = {}
C14_AtReturn ==
    C10_Completed
    => LET mine == {Pre.stack_ptr} \cup (IF Len(last.frames) > 1
                                         THEN {Pre.locals_ptr} ELSE {})
       IN  /\ Len(mem) = Len(last.mem)
           /\ mine \subseteq C14_Live(last.mem)
           /\ \A p \in 1..Len(mem) :
                 mem[p] = IF p \in mine THEN "freed" ELSE last.mem[p]
C14_Elsewhere ==
    (Stepped /\ ~C10_Completed)
    => \A p \in 1..Len(last.mem) : mem[p] = last.mem[p]
C14_FrameStorageReleased == C14_Accounted /\ C14_AtReturn /\ C14_Elsewhere

\* a callee left its loop without a return instruction: its operand stack
\* and its locals are released, main's operand stack is not
C14_Witness ==
    /\ C10_Completed
    /\ Len(last.frames) = 2
    /\ PreOp = -1
    /\ last.mem = <<"live", "live", "live">>
    /\ mem = <<"live", "freed", "freed">>
    /\ Cur.stack_ptr = 1

\* main has returned from a recursion of depth 20: 43 blocks, all released
C14_WitnessExit ==
    /\ status = "exited"
    /\ Len(mem) = 43
    /\ C14_Live(mem) = {}

\* C15: invokevirtual appends the top of the stack as one line to the
\* output and takes it off the stack; no other instruction writes output.
\* So the output of a run is the sequence of the values on top of the stack
\* at its prints, in execution order: what a callee prints comes after
\* everything its caller printed before the call and before everything the
\* caller prints after it.
C15_AtPrint ==
    (Stepped /\ PreOp = i_invokevirtual /\ PreHas(1))
    => /\ SameFrame
       /\ Len(out) = Len(last.out) + 1
       /\ out[Len(out)] = PreTop(1)
       /\ \A i \in 1..Len(last.out) : out[i] = last.out[i]
       /\ Cur.stack_size = Pre.stack_size - 1
       /\ Cur.operand_stack = Pre.operand_stack
C15_Elsewhere == (Stepped /\ PreOp # i_invokevirtual) => out = last.out
\* the "nested" classes print in main, in f called by main, in g called by
\* f, in f again and in main again
C15_NestedLines ==
    <<IF class.test.p[1] >= 128 THEN class.test.p[1] - 256 ELSE class.test.p[1],
      2, 3, 4, 5>>
C15_Nested ==
    class.test.kind = "nested"
    => /\ Len(out) <= 5
       /\ \A i \in 1..Len(out) : out[i] = C15_NestedLines[i]
       /\ status = "exited" => Len(out) = 5
       /\ (Len(frames) = 3 /\ Cur.program_counter > 2) => Len(out) = 3
C15_PrintInOrder == C15_AtPrint /\ C15_Elsewhere /\ C15_Nested

\* f has printed 4 after g's 3, which came after f's own 2 and main's -56
C15_Witness ==
    /\ Stepped
    /\ PreOp = i_invokevirtual
    /\ class.test.kind = "nested"
    /\ Len(frames) = 2
    /\ last.out = <<-56, 2, 3>>
    /\ out = <<-56, 2, 3, 4>>

\* C16: ireturn and areturn end the current invocation at once with a
\* present value, the top of the operand stack at that moment; return ends
\* it at once with no value; no instruction that follows the return
\* instruction in the invocation's code is executed, whatever the bytes.
C16_Return ==
    /\ Stepped
    /\ PreOp \in {i_return, i_ireturn, i_areturn}
    /\ PreOp # i_return => PreHas(1)
    /\ status # "crashed"
C16_Ended ==
    /\ Len(frames) = Len(last.frames) - 1
    /\ \A i \in 1..(Len(frames) - 1) : frames[i] = last.frames[i]
    /\ Len(frames) > 0
       => /\ Cur.method = C4_Suspended.method
          /\ Cur.program_counter = C4_Suspended.program_counter + 3
    /\ out = last.out
    /\ heap = last.heap
C16_ReturnEndsInvocation ==
    /\ C16_Return
       => /\ C16_Ended
          /\ result.has_value = (PreOp # i_return)
          /\ PreOp # i_return => result.value = PreTop(1)
    \* the callees of the "call" classes print only after their return
    /\ class.test.kind = "call" => out = <<>>

\* areturn handed the handle 0 to the caller although a print and another
\* areturn follow it in the code; nothing was printed
C16_Witness ==
    /\ C16_Return
    /\ PreOp = i_areturn
    /\ Len(Code(Pre)) = Pre.program_counter + 7
    /\ Code(Pre)[Pre.program_counter + 2] = i_bipush
    /\ C16_Ended
    /\ result = [has_value |-> TRUE, value |-> 0]
    /\ Len(frames) = 1
    /\ Cur.operand_stack[Cur.stack_size] = 0
    /\ out = <<>>

\* C17: newarray with a negative length on top of the stack is a fatal
\* fault: the heap gets no array and the stack no handle.  With a length
\* n >= 0 it adds exactly one array to the heap, with n in slot 0 and 0 in
\* slots 1..n, puts the handle of that array in the place of the length
\* (the depth stays), and leaves every array allocated before as it was.
C17_Newarray == Stepped /\ PreOp = i_newarray /\ PreHas(1)
C17_Refused ==
    /\ status = "fatal"
    /\ heap = last.heap
    /\ frames = last.frames
C17_Allocated(n) ==
    /\ SameFrame
    /\ heap = last.heap \o << [i \in 1..(n + 1) |-> IF i = 1 THEN n ELSE 0] >>
    /\ Cur.stack_size = Pre.stack_size
    /\ Cur.operand_stack[Cur.stack_size] \in 0..(Len(heap) - 1)
    /\ Cur.operand_stack[Cur.stack_size] + 1 = Len(heap)
    /\ \A i \in 1..(Cur.stack_size - 1) :
          Cur.operand_stack[i] = Pre.operand_stack[i]
    /\ Cur.locals = Pre.locals
    /\ Cur.program_counter = Pre.program_counter + 2
C17_NewarrayAllocates ==
    /\ (C17_Newarray /\ PreTop(1) < 0) => C17_Refused
    /\ (C17_Newarray /\ PreTop(1) \in 0..MaxAlloc) => C17_Allocated(PreTop(1))

\* a second array, of length 1, was added behind an array of length 2; its
\* handle 1 replaced the length on the stack
C17_Witness ==
    /\ C17_Newarray
    /\ PreTop(1) = 1
    /\ last.heap = << <<2, 0, 0>> >>
    /\ heap = << <<2, 0, 0>>, <<1, 0>> >>
    /\ SameFrame
    /\ Cur.stack_size = 1
    /\ Cur.operand_stack[1] = 1

\* newarray with the length -1 stopped the run with an empty heap
C17_WitnessNegative ==
    /\ C17_Newarray
    /\ PreTop(1) = -1
    /\ C17_Refused
    /\ heap = <<>>

\* C18: a constant push makes the stack one deeper and the new top is: for
\* bipush the byte after the opcode taken as a signed 8-bit number
\* (-128..127); for sipush the 16-bit number (b1 << 8) | b2 taken as signed
\* (-32768..32767); for iconst_m1, iconst_0 .. iconst_5 the values -1, 0 ..
\* 5; for ldc with index byte i the integer of constant-pool entry i - 1,
\* the pool being indexed from 1 in the instruction and from 0 in the table.
C18_Byte(k) == Code(Pre)[Pre.program_counter + k + 1]
C18_HasBytes(k) == Pre.program_counter + k < Len(Code(Pre))
C18_Room == Pre.stack_size >= 0 /\ Pre.stack_size < Meth(Pre).max_stack
\* entry k of the pool table, counted from 0
C18_Entry(k) == class.constant_pool[k + 1]
C18_Signed(v, bits) == IF v >= 2 ^ (bits - 1) THEN v - 2 ^ bits ELSE v
C18_Pushed(v) ==
    /\ SameFrame
    /\ Cur.stack_size = Pre.stack_size + 1
    /\ Cur.operand_stack[Cur.stack_size] = v
C18_Bipush ==
    (PreOp = i_bipush /\ C18_HasBytes(1)) =>
        /\ C18_Pushed(C18_Signed(C18_Byte(1), 8))
        /\ Cur.operand_stack[Cur.stack_size] \in -128..127
C18_Sipush ==
    (PreOp = i_sipush /\ C18_HasBytes(2)) =>
        /\ C18_Pushed(C18_Signed(C18_Byte(1) * 256 + C18_Byte(2), 16))
        /\ Cur.operand_stack[Cur.stack_size] \in -32768..32767
C18_Iconst ==
    /\ PreOp = i_iconst_m1 => C18_Pushed(-1)
    /\ PreOp = i_iconst_0 => C18_Pushed(0)
    /\ PreOp = i_iconst_1 => C18_Pushed(1)
    /\ PreOp = i_iconst_2 => C18_Pushed(2)
    /\ PreOp = i_iconst_3 => C18_Pushed(3)
    /\ PreOp = i_iconst_4 => C18_Pushed(4)
    /\ PreOp = i_iconst_5 => C18_Pushed(5)
C18_Ldc ==
    (/\ PreOp = i_ldc
     /\ C18_HasBytes(1)
     /\ C18_Byte(1) - 1 \in 0..(Len(class.constant_pool) - 1)
     /\ C18_Entry(C18_Byte(1) - 1).tag = "Integer") =>
        C18_Pushed(C18_Entry(C18_Byte(1) - 1).bytes)
C18_ConstantPushes ==
    (Stepped /\ C18_Room) =>
        C18_Bipush /\ C18_Sipush /\ C18_Iconst /\ C18_Ldc

\* bipush with the byte 255 pushed -1 on an empty stack
C18_Witness ==
    /\ Stepped /\ C18_Room
    /\ PreOp = i_bipush
    /\ C18_HasBytes(1)
    /\ C18_Byte(1) = 255
    /\ Pre.stack_size = 0
    /\ C18_Pushed(-1)

\* sipush 128 0 pushed -32768
C18_WitnessSipush ==
    /\ Stepped /\ C18_Room
    /\ PreOp = i_sipush
    /\ C18_Byte(1) = 128 /\ C18_Byte(2) = 0
    /\ C18_Pushed(-32768)

\* iconst_5 pushed 5
C18_WitnessIconst == Stepped /\ C18_Room /\ PreOp = i_iconst_5 /\ C18_Pushed(5)

\* ldc 2 pushed the second entry of the pool, not the third
C18_WitnessLdc ==
    /\ Stepped /\ C18_Room
    /\ PreOp = i_ldc
    /\ C18_Byte(1) = 2
    /\ class.constant_pool = <<CInt(7), CInt(INT_MIN), CInt(INT_MAX)>>
    /\ C18_Pushed(INT_MIN)
    /\ out = [i \in 1..17 |->
                <<-1, 0, 1, 2, 3, 4, 5, 0, 127, -128, -1, 0, 256, 32767,
                  -32768, -1, 7>>[i]]

\* C19: a load of local slot s pushes locals[s] and changes no local; a
\* store to slot s sets locals[s] to the former top of the stack, makes the
\* stack one shallower and changes no other local; iinc s, c adds the byte c
\* taken as a signed 8-bit number (-128..127) to locals[s] and changes
\* neither the stack, its depth, nor any other local; a store to slot s
\* followed by a load of slot s pushes the stored value back.
C19_Loads ==
    {i_iload, i_aload} \cup (i_iload_0..i_iload_3) \cup (i_aload_0..i_aload_3)
C19_Stores ==
    {i_istore, i_astore} \cup (i_istore_0..i_istore_3) \cup (i_astore_0..i_astore_3)
C19_Code(k) ==
    IF Pre.program_counter + k < Len(Code(Pre))
    THEN Code(Pre)[Pre.program_counter + k + 1]
    ELSE -1
\* the slot the instruction names, -1 if its operand byte is missing
C19_Slot ==
    CASE PreOp \in {i_iload, i_aload, i_istore, i_astore, i_iinc} -> C19_Code(1)
      [] PreOp \in i_iload_0..i_iload_3 -> PreOp - i_iload_0
      [] PreOp \in i_aload_0..i_aload_3 -> PreOp - i_aload_0
      [] PreOp \in i_istore_0..i_istore_3 -> PreOp - i_istore_0
      [] PreOp \in i_astore_0..i_astore_3 -> PreOp - i_astore_0
      [] OTHER -> -1
C19_SlotOK == C19_Slot >= 0 /\ C19_Slot < Meth(Pre).max_locals
\* locals[s] of a frame
C19_Local(f, s) == f.locals[s + 1]
C19_OthersKept ==
    \A s \in 0..(Meth(Pre).max_locals - 1) :
        s # C19_Slot => C19_Local(Cur, s) = C19_Local(Pre, s)
C19_StackKept ==
    /\ Cur.stack_size = Pre.stack_size
    /\ Cur.operand_stack = Pre.operand_stack
C19_Increment == IF C19_Code(2) >= 128 THEN C19_Code(2) - 256 ELSE C19_Code(2)
\* the sum is an int32_t
C19_SumFits ==
    /\ C19_Increment >= 0 => C19_Local(Pre, C19_Slot) <= INT_MAX - C19_Increment
    /\ C19_Increment < 0 => C19_Local(Pre, C19_Slot) >= INT_MIN - C19_Increment
C19_Load ==
    /\ Stepped /\ PreOp \in C19_Loads /\ C19_SlotOK
    /\ Pre.stack_size >= 0 /\ Pre.stack_size < Meth(Pre).max_stack
C19_Store ==
    /\ Stepped /\ PreOp \in C19_Stores /\ C19_SlotOK
    /\ PreHas(1) /\ Pre.stack_size <= Meth(Pre).max_stack
C19_Iinc ==
    /\ Stepped /\ PreOp = i_iinc /\ C19_SlotOK
    /\ C19_Code(2) >= 0
    /\ C19_SumFits
C19_AtLoad ==
    C19_Load =>
        /\ SameFrame
        /\ Cur.stack_size = Pre.stack_size + 1
        /\ Cur.operand_stack[Cur.stack_size] = C19_Local(Pre, C19_Slot)
        /\ \A i \in 1..Pre.stack_size :
              Cur.operand_stack[i] = Pre.operand_stack[i]
        /\ Cur.locals = Pre.locals
C19_AtStore ==
    C19_Store =>
        /\ SameFrame
        /\ C19_Local(Cur, C19_Slot) = PreTop(1)
        /\ Cur.stack_size = Pre.stack_size - 1
        /\ C19_OthersKept
C19_AtIinc ==
    C19_Iinc =>
        /\ SameFrame
        /\ C19_Increment \in -128..127
        /\ C19_Local(Cur, C19_Slot) = C19_Local(Pre, C19_Slot) + C19_Increment
        /\ C19_StackKept
        /\ C19_OthersKept
\* the store has just happened and the load of the same slot is the step
\* being taken
C19_StoreThenLoad ==
    (C19_Store /\ C19_Load' /\ C19_Slot' = C19_Slot)
        => Cur'.operand_stack[Cur'.stack_size] = PreTop(1)
C19_LocalAccess ==
    /\ [](C19_AtLoad /\ C19_AtStore /\ C19_AtIinc)
    /\ [][C19_StoreThenLoad]_vars

\* INT_MIN was stored to slot 2 by istore and iload 2 has pushed it back;
\* the other locals still hold 10, 11, 13 and 14
C19_Witness ==
    /\ C19_Load
    /\ PreOp = i_iload
    /\ C19_Slot = 2
    /\ Pre.locals = <<10, 11, INT_MIN, 13, 14>>
    /\ Cur.locals = Pre.locals
    /\ Cur.stack_size = 1
    /\ Cur.operand_stack[1] = INT_MIN
    /\ Code(Pre)[Pre.program_counter - 1] = i_istore
    /\ Code(Pre)[Pre.program_counter] = 2

\* astore_3 put 7 in slot 3 and took it off the stack
C19_WitnessStore ==
    /\ C19_Store
    /\ PreOp = i_astore_3
    /\ PreTop(1) = 7
    /\ Pre.locals = <<10, 11, 12, 13, 14>>
    /\ Cur.locals = <<10, 11, 12, 7, 14>>
    /\ Cur.stack_size = 0

\* iinc 4 128 took 128 off slot 4 with an empty stack
C19_WitnessIinc ==
    /\ C19_Iinc
    /\ C19_Code(2) = 128
    /\ Pre.locals = <<10, 11, 12, 13, 7>>
    /\ Cur.locals = <<10, 11, 12, 13, -121>>
    /\ Cur.stack_size = 0

\* C20: the driver invokes the interpreter exactly once, for the entry
\* method (the method named "main" of descriptor "([Ljava/lang/String;)V"),
\* with every one of its max_locals local slots equal to 0; the run is a
\* fatal fault if the class has no such method or if the entry invocation
\* returns a value.
C20_IsEntry(meth) ==
    /\ meth.name = "main"
    /\ meth.descriptor = "([Ljava/lang/String;)V"
C20_Missing == \A i \in 1..Len(class.methods) : ~C20_IsEntry(class.methods[i])
\* the step just taken was the driver's: nothing was running before it
C20_Driver == last.act = "main"
C20_Invoked ==
    /\ status = "running"
    /\ Len(frames) = 1
    /\ C20_IsEntry(Meth(Cur))
    /\ Cur.program_counter = 0
    /\ Cur.stack_size = 0
    /\ Len(Cur.locals) = Meth(Cur).max_locals
    /\ \A i \in 1..Len(Cur.locals) : Cur.locals[i] = 0
C20_NotRun ==
    /\ status = "fatal"
    /\ frames = <<>>
    /\ out = <<>>
C20_AtStart ==
    C20_Driver =>
        /\ last.status = "start"
        /\ last.frames = <<>>
        /\ IF C20_Missing THEN C20_NotRun ELSE C20_Invoked
\* the invocation the driver made has come back
C20_EntryBack == Stepped /\ Len(last.frames) = 1 /\ Len(frames) = 0
C20_AtEnd ==
    C20_EntryBack =>
        /\ C20_IsEntry(Meth(Pre))
        /\ result.has_value => status = "fatal"
        /\ ~result.has_value => status = "exited"
\* the interpreter runs for the driver only while the driver's one
\* invocation is open
C20_Open ==
    /\ status = "start" => frames = <<>>
    /\ Len(frames) > 0 => C20_IsEntry(class.methods[frames[1].method])
C20_Once ==
    /\ status # "start" => status' # "start"
    /\ (frames = <<>> /\ frames' # <<>>) => (status = "start" /\ last'.act = "main")
C20_DriverRunsMainOnce ==
    /\ [](C20_AtStart /\ C20_AtEnd /\ C20_Open)
    /\ [][C20_Once]_vars

\* the entry method, the second of its class behind a method named main of
\* another descriptor, has printed 2 and returned 3 to the driver: a fault
C20_Witness ==
    /\ C20_EntryBack
    /\ class.methods[1].name = "main"
    /\ Pre.method = 2
    /\ PreOp = i_ireturn
    /\ Pre.locals = <<0, 5, 0>>
    /\ result = [has_value |-> TRUE, value |-> 3]
    /\ out = <<2>>
    /\ status = "fatal"

\* a class whose only method is named main but has another descriptor was
\* not run
C20_WitnessMissing ==
    /\ C20_Driver
    /\ Len(class.methods) = 1
    /\ class.methods[1].name = "main"
    /\ C20_Missing
    /\ C20_NotRun

\* the entry method was invoked with three locals, all 0
C20_WitnessInvoked ==
    /\ C20_Driver
    /\ C20_Invoked
    /\ Cur.method = 2
    /\ Cur.locals = <<0, 0, 0>>

\* C21: getstatic changes nothing but the program counter, which goes up by
\* exactly 3: the operand stack and its depth, every local, the heap and
\* the output stay as they were and nothing is pushed for the field.
C21_Getstatic == Stepped /\ PreOp = i_getstatic
C21_GetstaticSkips ==
    C21_Getstatic =>
        /\ SameFrame
        /\ Cur.program_counter = Pre.program_counter + 3
        /\ Cur.method = Pre.method
        /\ Cur.stack_size = Pre.stack_size
        /\ Cur.operand_stack = Pre.operand_stack
        /\ Cur.locals = Pre.locals
        /\ \A i \in 1..(Len(frames) - 1) : frames[i] = last.frames[i]
        /\ heap = last.heap
        /\ out = last.out
        /\ mem = last.mem

\* getstatic was met with the stack <<handle 0, 3>>, 7 in local 1, one array
\* on the heap and one line printed, and left them all
C21_Witness ==
    /\ C21_Getstatic
    /\ Pre.stack_size = 2
    /\ Pre.operand_stack = <<0, 3, 0>>
    /\ Pre.locals = <<0, 7>>
    /\ last.heap = << <<1, 0>> >>
    /\ last.out = <<4>>
    /\ Cur = [Pre EXCEPT !.program_counter = 14]
    /\ heap = last.heap
    /\ out = last.out

\* C22: when the byte at the program counter, with pc < code_length, is not
\* an opcode the dispatch switch has a case for, the step changes neither
\* the program counter, the operand stack, the locals nor the heap, and the
\* invocation stays in that state for ever: it neither returns nor ends in
\* a fatal fault.
C22_Stuck ==
    /\ status = "running"
    /\ Len(frames) > 0
    /\ Cur.program_counter < Len(Code(Cur))
    /\ Code(Cur)[Cur.program_counter + 1] \notin Handled
C22_StepKeeps ==
    C22_Stuck => UNCHANGED <<frames, heap, out, status, result, mem>>
C22_UnhandledSpins ==
    /\ [][C22_StepKeeps]_vars
    /\ [](C22_Stuck => []C22_Stuck)

\* a callee is at the byte 255 with 2 on its stack and 9 in its local while
\* its caller waits
C22_Witness ==
    /\ C22_Stuck
    /\ Len(frames) = 2
    /\ Code(Cur)[Cur.program_counter + 1] = 255
    /\ Cur.program_counter = 1
    /\ Cur.stack_size = 1
    /\ Cur.operand_stack = <<2>>
    /\ Cur.locals = <<9>>
    /\ out = <<>>

\* C23: whenever the program counter is >= code_length, by running past
\* the last instruction or by a branch to a target outside
\* [0, code_length), a backward branch to before position 0 included, the
\* invocation ends without executing another instruction, hands "no value"
\* to its caller and releases its operand stack; a method with no
\* instructions does so at once.
C23_AtEnd ==
    /\ status = "running"
    /\ Len(frames) > 0
    /\ Cur.program_counter >= Len(Code(Cur))
C23_EndStep ==
    C23_AtEnd =>
        /\ last'.act = "loop_exit"
        /\ Len(frames') = Len(frames) - 1
        /\ result' = [has_value |-> FALSE, value |-> 0]
        /\ mem[Cur.stack_ptr] = "live"
        /\ mem'[Cur.stack_ptr] = "freed"
        /\ heap' = heap
        /\ out' = out
        /\ \A i \in 1..(Len(frames) - 2) : frames'[i] = frames[i]
        /\ Len(frames) > 1 =>
              /\ frames'[Len(frames) - 1].stack_size = frames[Len(frames) - 1].stack_size
              /\ frames'[Len(frames) - 1].operand_stack = frames[Len(frames) - 1].operand_stack
              /\ frames'[Len(frames) - 1].locals = frames[Len(frames) - 1].locals
        /\ status' = IF Len(frames) = 1 THEN "exited" ELSE "running"
C23_Ended == Stepped /\ PreOp = -1 /\ Len(frames) = Len(last.frames) - 1
C23_EndOfCodeReturns ==
    /\ [][C23_EndStep]_vars
    /\ [](C23_AtEnd => <>C23_Ended)

\* a branch from position 6 to before position 0 has ended main: no
\* value, its operand stack released, the process exited
C23_Witness ==
    /\ C23_Ended
    /\ Pre.program_counter > Len(Code(Pre)) + 6
    /\ class.test.kind = "branch"
    /\ frames = <<>>
    /\ result = [has_value |-> FALSE, value |-> 0]
    /\ last.mem[Pre.stack_ptr] = "live"
    /\ mem[Pre.stack_ptr] = "freed"
    /\ status = "exited"

\* a main with no instructions has ended without a step of its own
C23_WitnessEmpty ==
    /\ C23_Ended
    /\ Code(Pre) = <<>>
    /\ last.act = "loop_exit"
    /\ status = "exited"

\* a callee ran past its last instruction and its caller went on
C23_WitnessCallee ==
    /\ C23_Ended
    /\ Len(frames) = 1
    /\ Pre.program_counter = Len(Code(Pre))
    /\ status = "running"

\* C24: after any sequence of instructions every operand-stack entry and
\* every local slot holds a value in [-2^31, 2^31 - 1]; iadd, isub, imul,
\* ineg, ishl and iinc yield the exact mathematical result reduced modulo
\* 2^32 into that range, and idiv with a divisor other than 0 always pushes
\* a value in that range, for the operands -2^31 and -1 as for any other,
\* as ineg does for -2^31.
C24_Int32 == INT_MIN..INT_MAX
C24_InRange ==
    \A i \in 1..Len(frames) :
        /\ \A k \in 1..Len(frames[i].operand_stack) :
              frames[i].operand_stack[k] \in C24_Int32
        /\ \A k \in 1..Len(frames[i].locals) : frames[i].locals[k] \in C24_Int32
C24_TopIs(v, pops) ==
    /\ SameFrame
    /\ Cur.stack_size = Pre.stack_size - pops + 1
    /\ Cur.operand_stack[Cur.stack_size] = v
C24_Two == Stepped /\ PreHas(2)
C24_IincSlot == Code(Pre)[Pre.program_counter + 2]
C24_IincByte == Code(Pre)[Pre.program_counter + 3]
C24_Wraps ==
    /\ (C24_Two /\ PreOp = i_iadd) => C24_TopIs(Add32(PreTop(2), PreTop(1)), 2)
    /\ (C24_Two /\ PreOp = i_isub) => C24_TopIs(Sub32(PreTop(2), PreTop(1)), 2)
    /\ (C24_Two /\ PreOp = i_imul) => C24_TopIs(Mul32(PreTop(2), PreTop(1)), 2)
    /\ (C24_Two /\ PreOp = i_ishl /\ PreTop(1) \in 0..31)
          => C24_TopIs(Shl32(PreTop(2), PreTop(1)), 2)
    /\ (Stepped /\ PreHas(1) /\ PreOp = i_ineg) => C24_TopIs(Neg32(PreTop(1)), 1)
    /\ (/\ Stepped /\ PreOp = i_iinc
        /\ Pre.program_counter + 2 < Len(Code(Pre))
        /\ C24_IincSlot < Meth(Pre).max_locals)
          => /\ SameFrame
             /\ Cur.locals[C24_IincSlot + 1] =
                   Add32(Pre.locals[C24_IincSlot + 1],
                         IF C24_IincByte >= 128 THEN C24_IincByte - 256
                         ELSE C24_IincByte)
C24_Divides ==
    (C24_Two /\ PreOp = i_idiv /\ PreTop(1) # 0) =>
        /\ SameFrame
        /\ Cur.stack_size = Pre.stack_size - 1
        /\ Cur.operand_stack[Cur.stack_size] \in C24_Int32
C24_AlwaysInt32 == C24_InRange /\ C24_Wraps /\ C24_Divides

\* What the code gives: values stay in the range, the six operations give
\* the wrapped result and idiv pushes a value of the range whenever the
\* process survives the step; a result that is not an int32_t, the quotient
\* of -2^31 and -1 included, is undefined and may end the process instead.
C24_Survived == status # "crashed"
C24_WrapsIfSurvived ==
    /\ C24_InRange
    /\ C24_Survived => (C24_Wraps /\ C24_Divides)
    /\ (Stepped /\ status = "crashed") => last.ub

\* the division of -2^31 by -1 ended the process: no quotient was pushed
C24_Witness ==
    /\ C24_Two
    /\ PreOp = i_idiv
    /\ PreTop(2) = INT_MIN
    /\ PreTop(1) = -1
    /\ status = "crashed"
    /\ frames = last.frames
    /\ out = <<>>

\* C25: after any sequence of add_child_directory_tree calls on a
\* directory node that starts with no children, the children are in
\* non-decreasing order of name as strcmp orders them, num_children is the
\* number of calls made with both arguments not NULL, every child is
\* present once for each call that added it, and a call with a NULL
\* directory or a NULL child changes nothing; a new child of the same name
\* as a child already there is placed before it.
\* a is below b: at the first position where they differ a has the smaller
\* byte, or a has ended
C25_Below(a, b) ==
    \E k \in 1..Len(b) :
        /\ \A j \in 1..(k - 1) : j <= Len(a) /\ a[j] = b[j]
        /\ (k > Len(a) \/ (k <= Len(a) /\ a[k] < b[k]))
C25_NameOf(child) == TreeNames[child]
C25_Added == {k \in 1..Len(calls) : calls[k].dnode /\ calls[k].child # 0}
C25_Sorted ==
    \A i \in 1..Len(dnode.children) : \A j \in (i + 1)..Len(dnode.children) :
        ~C25_Below(C25_NameOf(dnode.children[j]), C25_NameOf(dnode.children[i]))
C25_Counted ==
    /\ dnode.num_children = Cardinality(C25_Added)
    /\ Len(dnode.children) = dnode.num_children
    /\ \A c \in 1..Len(TreeNames) :
          Cardinality({i \in 1..Len(dnode.children) : dnode.children[i] = c})
             = Cardinality({k \in C25_Added : calls[k].child = c})
C25_Call == Len(calls') = Len(calls) + 1
C25_Arg == calls'[Len(calls')]
C25_NullKeeps ==
    (C25_Call /\ (~C25_Arg.dnode \/ C25_Arg.child = 0)) => dnode' = dnode
\* the place p of the new child: the children before it have names below
\* its name, the others follow it in their old order
C25_Placed ==
    (C25_Call /\ C25_Arg.dnode /\ C25_Arg.child # 0) =>
        \E p \in 1..(Len(dnode.children) + 1) :
            /\ dnode'.children =
                  SubSeq(dnode.children, 1, p - 1) \o <<C25_Arg.child>>
                  \o SubSeq(dnode.children, p, Len(dnode.children))
            /\ \A q \in 1..(p - 1) :
                  C25_Below(C25_NameOf(dnode.children[q]), C25_NameOf(C25_Arg.child))
            /\ \A q \in p..Len(dnode.children) :
                  C25_NameOf(dnode.children[q]) = C25_NameOf(C25_Arg.child)
                     => \E r \in (p + 1)..Len(dnode'.children) :
                           dnode'.children[r] = dnode.children[q]
C25_ChildrenSorted ==
    /\ [](C25_Sorted /\ C25_Counted)
    /\ [][C25_NullKeeps /\ C25_Placed]_vars

\* four calls, one of them with a NULL child: node 2 went before node 1 of
\* the same name, the empty name first and the byte 200 last
C25_Witness ==
    /\ calls = <<[dnode |-> TRUE, child |-> 1], [dnode |-> TRUE, child |-> 4],
                 [dnode |-> TRUE, child |-> 0], [dnode |-> TRUE, child |-> 2]>>
    /\ dnode.children = <<2, 1, 4>>
    /\ dnode.num_children = 3

\* the same node added twice is there twice, after a call on a NULL
\* directory that added nothing
C25_WitnessTwice ==
    /\ calls = <<[dnode |-> FALSE, child |-> 5], [dnode |-> TRUE, child |-> 3],
                 [dnode |-> TRUE, child |-> 5], [dnode |-> TRUE, child |-> 3]>>
    /\ dnode.children = <<5, 3, 3>>

\* C26: follow reads the entries of a directory strictly in their order on
\* the disk and stops at the first entry whose filename begins with a NUL
\* byte.  For every entry before it, it attaches exactly one child to the
\* node if the entry is not hidden (a directory node, filled in the same
\* way, for a directory entry; a file node of the entry's size for a file
\* entry) and nothing if the entry is hidden.  After each entry, a whole
\* walk of a subdirectory included, the position is back at the byte just
\* after the entry, so that no entry is skipped or read twice and no entry
\* after the terminator is read.
C26_Slot(o) == disk.slots[(o \div 32) + 1]
C26_IsEnd(e) == e.filename[1] = 0
C26_Shown(o) == ~C26_IsEnd(C26_Slot(o)) /\ ~C26_Slot(o).hidden
C26_Name(e) == SelectSeq(e.filename, LAMBDA b : b # 32)
C26_Cluster(e) ==
    disk.bpb.data_start + (e.first_cluster - 2) * disk.bpb.cluster_bytes
\* the offsets of the entries a walk of the table at o reads, in the order
\* it reads them; the walk ends with -1 where it meets the end of the image
\* instead of an entry
RECURSIVE C26_Walk(_)
C26_Walk(o) ==
    IF o + 32 > 32 * Len(disk.slots) THEN <<-1>>
    ELSE IF C26_IsEnd(C26_Slot(o)) THEN <<o>>
    ELSE LET below == IF C26_Shown(o) /\ C26_Slot(o).directory
                      THEN C26_Walk(C26_Cluster(C26_Slot(o)))
                      ELSE <<>>
         IN  IF below # <<>> /\ below[Len(below)] = -1
             THEN <<o>> \o below
             ELSE <<o>> \o below \o C26_Walk(o + 32)
\* the offsets of the entries of the table at o before its terminator
RECURSIVE C26_Entries(_)
C26_Entries(o) ==
    IF o + 32 > 32 * Len(disk.slots) \/ C26_IsEnd(C26_Slot(o)) THEN {}
    ELSE {o} \cup C26_Entries(o + 32)
C26_All == C26_Walk(disk.bpb.root)
C26_InOrder ==
    /\ Len(reads) <= Len(C26_All)
    /\ \A i \in 1..Len(reads) : reads[i] = C26_All[i]
\* between two entries the position is at the next entry of the walk
C26_Restored ==
    (fstatus = "running" /\ Len(reads) < Len(C26_All))
        => \/ pos = C26_All[Len(reads) + 1]
           \/ /\ C26_All[Len(reads) + 1] = -1
              /\ pos = 32 * Len(disk.slots)
C26_OnePerShown ==
    Len(nodes) - 1 = Cardinality({i \in 1..Len(reads) : C26_Shown(reads[i])})
\* node n holds what the table at o shows
RECURSIVE C26_Matches(_, _)
C26_Matches(n, o) ==
    LET shown == {x \in C26_Entries(o) : C26_Shown(x)}
        d == nodes[n]
    IN  /\ d.type = "DIRECTORY_TYPE"
        /\ d.num_children = Cardinality(shown)
        /\ Len(d.children) = d.num_children
        /\ \A i, j \in 1..Len(d.children) :
              i # j => d.children[i] # d.children[j]
        /\ \A x \in shown :
              \E i \in 1..Len(d.children) :
                 LET c == nodes[d.children[i]]
                     e == C26_Slot(x)
                 IN  /\ c.name = C26_Name(e)
                     /\ IF e.directory
                        THEN /\ c.type = "DIRECTORY_TYPE"
                             /\ C26_Matches(d.children[i], C26_Cluster(e))
                        ELSE /\ c.type = "FILE_TYPE"
                             /\ c.size = e.file_size
C26_Complete ==
    fstatus = "done" =>
        /\ reads = C26_All
        /\ C26_Matches(1, disk.bpb.root)
        /\ pos = disk.bpb.root + 32 * (Cardinality(C26_Entries(disk.bpb.root)) + 1)
C26_FollowWalksInOrder ==
    C26_InOrder /\ C26_Restored /\ C26_OnePerShown /\ C26_Complete

\* What the walk does: the order, the positions and the finished tree are
\* as stated, and one child is attached for each entry shown, as long as
\* the process lives; it ends in a failed assert when an entry cannot be
\* read or when the entry just read is a file whose contents cannot be
\* read as one item, which is so for every file of size 0.
C26_LastRead == C26_Slot(reads[Len(reads)])
C26_Unreadable ==
    \/ pos + 32 > 32 * Len(disk.slots)
    \/ /\ reads # <<>>
       /\ C26_Shown(reads[Len(reads)])
       /\ ~C26_LastRead.directory
       /\ \/ C26_LastRead.file_size = 0
          \/ C26_Cluster(C26_LastRead) + C26_LastRead.file_size > 32 * Len(disk.slots)
C26_WalkUnlessUnreadable ==
    /\ C26_InOrder
    /\ C26_Restored
    /\ C26_Complete
    /\ fstatus # "fatal" => C26_OnePerShown
    /\ fstatus = "fatal" => C26_Unreadable

\* the root holds a file of size 0 after a directory: the directory was
\* walked and attached, the file entry was read, and the process ended
\* without a node for it and without reaching the terminator
C26_Witness ==
    /\ fstatus = "fatal"
    /\ Len(reads) = 5
    /\ C26_Slot(reads[1]).directory
    /\ C26_Shown(reads[1])
    /\ reads[2] = 256
    /\ C26_LastRead.file_size = 0
    /\ C26_Shown(reads[5])
    /\ reads[5] = 32
    /\ Len(nodes) = 3
    /\ nodes[1].children = <<2>>

\* a complete walk: a subdirectory with a subdirectory of its own, then a
\* hidden entry; the position is after the terminator of the root
C26_WitnessDone ==
    /\ fstatus = "done"
    /\ reads = <<0, 256, 384, 416, 288, 320, 32, 64>>
    /\ pos = 96
    /\ nodes[1].children = <<2>>
    /\ nodes[2].children = <<5, 3>>
    /\ nodes[3].children = <<4>>
    /\ Len(nodes) = 5

====
